---- MODULE Spec2Model ----
(***************************************************************************)
(* Model of backend/db_manager.py: the DatabaseManager that validates and  *)
(* executes SQL text against a target database through SQLAlchemy 2.0.     *)
(*                                                                         *)
(* SQL text is a string and every text operation of the code (strip,       *)
(* lower, startswith, substring test, rstrip(';'), f-string building) is   *)
(* computed character by character.  The target database holds a table    *)
(* users with primary key id and a column v; the driver parses the final   *)
(* text it is handed, so what the code appends or fails to append decides  *)
(* what the database does.                                                 *)
(***************************************************************************)
EXTENDS Integers, Sequences, FiniteSets, TLC

VARIABLES engines, tables, last, probe

vars == <<engines, tables, last, probe>>

(***************************************************************************)
(* Bounds                                                                  *)
(***************************************************************************)
MaxKey == 2
MaxFaults == 2

MaxCalls == 4

MaxIds == 3

(***************************************************************************)
(* Inputs of the calls: statement texts and row limits                     *)
(***************************************************************************)
DefaultLimit == 1000

Limits == {1, DefaultLimit}

SelectTexts ==
    {"SELECT * FROM users", "select * from users as unlimited",
     "SELECT * FROM users LIMIT 1", "SELECT COUNT(*) FROM users",
     "SELECT * FROM nonexistent_table"}

DMLTexts ==
    {"INSERT INTO users VALUES (1)", "DELETE FROM users WHERE id=1",
     "  update users set v = 1;", "DELETE FROM nonexistent_table"}

OtherTexts == {"SELEKT * FROM t", "CREATE TABLE audit"}

SqlTexts == SelectTexts \cup DMLTexts \cup OtherTexts

(***************************************************************************)
(* Python str operations, character by character                           *)
(***************************************************************************)
Char(s, i) == SubSeq(s, i, i)

UpperAlpha == "ABCDEFGHIJKLMNOPQRSTUVWXYZ"

LowerAlpha == "abcdefghijklmnopqrstuvwxyz"

Whitespace == {" ", "\t", "\n", "\r"}

LowerChar(c) ==
    IF \E i \in 1..26 : Char(UpperAlpha, i) = c
    THEN Char(LowerAlpha, CHOOSE i \in 1..26 : Char(UpperAlpha, i) = c)
    ELSE c

Min(S) == CHOOSE x \in S : \A y \in S : x <= y

Max(S) == CHOOSE x \in S : \A y \in S : x >= y

\* s.lower(): every character mapped, the string split in halves
RECURSIVE str_lower(_)
str_lower(s) ==
    IF Len(s) = 0 THEN ""
    ELSE IF Len(s) = 1 THEN LowerChar(s)
    ELSE LET h == Len(s) \div 2 IN
         str_lower(SubSeq(s, 1, h)) \o str_lower(SubSeq(s, h + 1, Len(s)))

\* positions of s whose character is not in the set S
Outside(s, S) == {i \in 1..Len(s) : Char(s, i) \notin S}

\* s.lstrip(chars) and s.rstrip(chars) for a set of characters
lstrip_chars(s, S) ==
    IF Outside(s, S) = {} THEN "" ELSE SubSeq(s, Min(Outside(s, S)), Len(s))

rstrip_chars(s, S) ==
    IF Outside(s, S) = {} THEN "" ELSE SubSeq(s, 1, Max(Outside(s, S)))

str_strip(s) == rstrip_chars(lstrip_chars(s, Whitespace), Whitespace)

rstrip_semicolon(s) == rstrip_chars(s, {";"})

startswith(s, p) == Len(s) >= Len(p) /\ SubSeq(s, 1, Len(p)) = p

contains(s, p) ==
    \E i \in 1..(Len(s) - Len(p) + 1) : SubSeq(s, i, i + Len(p) - 1) = p

(***************************************************************************)
(* Statement classification: the branch each handler takes                 *)
(***************************************************************************)
query_lower(sql_query) == str_lower(str_strip(sql_query))

\* mutant of validate_branch: the tests are made on the text as given, neither
\* trimmed nor lower-cased
validate_branch_verbatim(sql_query) ==
    IF startswith(sql_query, "select") THEN "SELECT"
    ELSE IF startswith(sql_query, "insert") THEN "INSERT"
    ELSE IF startswith(sql_query, "update") THEN "UPDATE"
    ELSE IF startswith(sql_query, "delete") THEN "DELETE"
    ELSE "DDL_OR_OTHER"

\* validate_query: the if / elif / else over query_lower
validate_branch(sql_query) ==
    LET q == query_lower(sql_query) IN
    IF startswith(q, "select") THEN "SELECT"
    ELSE IF startswith(q, "insert") \/ startswith(q, "update")
            \/ startswith(q, "delete")
         THEN IF startswith(q, "insert") THEN "INSERT"
              ELSE IF startswith(q, "update") THEN "UPDATE"
              ELSE IF startswith(q, "delete") THEN "DELETE"
              ELSE "DML"
    ELSE "DDL_OR_OTHER"

\* execute_query: the if / elif / else over query_lower
execute_branch(sql_query) ==
    LET q == query_lower(sql_query) IN
    IF startswith(q, "select") THEN "SELECT"
    ELSE IF startswith(q, "insert") \/ startswith(q, "update")
            \/ startswith(q, "delete")
         THEN IF startswith(q, "insert") THEN "INSERT"
              ELSE IF startswith(q, "update") THEN "UPDATE"
              ELSE IF startswith(q, "delete") THEN "DELETE"
              ELSE "DML"
    ELSE "DDL_OR_OTHER"

DMLClasses == {"INSERT", "UPDATE", "DELETE"}

\* the branches of the input texts, computed once
BranchTable ==
    [s \in SqlTexts |-> [validate |-> validate_branch(s), execute |-> execute_branch(s)]]

validate_branch_of(sql_query) ==
    IF sql_query \in SqlTexts THEN BranchTable[sql_query].validate
    ELSE validate_branch(sql_query)

execute_branch_of(sql_query) ==
    IF sql_query \in SqlTexts THEN BranchTable[sql_query].execute
    ELSE execute_branch(sql_query)

(***************************************************************************)
(* Text helpers used when building statements and messages                 *)
(***************************************************************************)
Digits == "0123456789"

\* f"{limit}" of a non-negative int
RECURSIVE int_str(_)
int_str(n) ==
    IF n < 10 THEN Char(Digits, n + 1)
    ELSE int_str(n \div 10) \o Char(Digits, (n % 10) + 1)

\* error_msg.split('\n')[0]
first_line(s) ==
    LET nl == {i \in 1..Len(s) : Char(s, i) = "\n"} IN
    IF nl = {} THEN s ELSE SubSeq(s, 1, Min(nl) - 1)

(***************************************************************************)
(* Statement texts the handlers build from sql_query                       *)
(***************************************************************************)
\* execute_query, SELECT branch: the statement text sent to the database
execute_select_text(sql_query, limit) ==
    IF ~contains(query_lower(sql_query), "limit")
    THEN rstrip_semicolon(sql_query) \o " LIMIT " \o int_str(limit)
    ELSE sql_query

DigitSet == {Char(Digits, i) : i \in 1..10}

\* number of consecutive characters of s from position i on that are in S
Span(s, i, S) ==
    LET stops == {j \in i..Len(s) : Char(s, j) \notin S} IN
    IF i > Len(s) THEN 0
    ELSE IF stops = {} THEN Len(s) + 1 - i ELSE Min(stops) - i

\* length of the match of \s+limit\s+\d+\s* (IGNORECASE) at position i, 0 if none
limit_match_len(s, i) ==
    LET a == Span(s, i, Whitespace)
        j == i + a
        isLimit == j + 4 <= Len(s) /\ str_lower(SubSeq(s, j, j + 4)) = "limit"
        b == Span(s, j + 5, Whitespace)
        d == Span(s, j + 5 + b, DigitSet)
        c == Span(s, j + 5 + b + d, Whitespace)
    IN IF a >= 1 /\ isLimit /\ b >= 1 /\ d >= 1 THEN a + 5 + b + d + c ELSE 0

\* re.sub(r'\s+limit\s+\d+\s*', ' ', s, flags=re.IGNORECASE), from position i
RECURSIVE re_sub_limit(_, _)
re_sub_limit(s, i) ==
    LET hits == {j \in i..Len(s) : limit_match_len(s, j) > 0} IN
    IF i > Len(s) THEN ""
    ELSE IF hits = {} THEN SubSeq(s, i, Len(s))
    ELSE LET p == Min(hits) IN
         SubSeq(s, i, p - 1) \o " " \o re_sub_limit(s, p + limit_match_len(s, p))

validate_wrapped_text(sql_query) ==
    "SELECT * FROM (" \o rstrip_semicolon(sql_query)
    \o ") AS validation_subquery LIMIT 0"

validate_fallback_text(sql_query) ==
    IF contains(query_lower(sql_query), "limit")
    THEN rstrip_semicolon(re_sub_limit(sql_query, 1)) \o " LIMIT 0"
    ELSE rstrip_semicolon(sql_query) \o " LIMIT 0"

\* every text a handler can send for the input texts, and the same built once
TextTable ==
    [s \in SqlTexts |->
        [select |-> [l \in Limits |-> execute_select_text(s, l)],
         wrapped |-> validate_wrapped_text(s),
         fallback |-> validate_fallback_text(s)]]

SentTexts ==
    SqlTexts \cup {"SELECT 1"}
    \cup {TextTable[s].select[l] : s \in SqlTexts, l \in Limits}
    \cup {TextTable[s].wrapped : s \in SqlTexts}
    \cup {TextTable[s].fallback : s \in SqlTexts}

execute_select_text_of(sql_query, limit) ==
    IF sql_query \in SqlTexts /\ limit \in Limits
    THEN TextTable[sql_query].select[limit]
    ELSE execute_select_text(sql_query, limit)

validate_wrapped_text_of(sql_query) ==
    IF sql_query \in SqlTexts THEN TextTable[sql_query].wrapped
    ELSE validate_wrapped_text(sql_query)

validate_fallback_text_of(sql_query) ==
    IF sql_query \in SqlTexts THEN TextTable[sql_query].fallback
    ELSE validate_fallback_text(sql_query)

(***************************************************************************)
(* The target database as the driver sees it: a catalog of tables, each a  *)
(* function from primary key to "-" (no row) or the value of column v.     *)
(* The driver parses the text it receives.                                 *)
(***************************************************************************)
Keys == 1..MaxKey

Cells == {"-", "0", "1"}

EmptyTable == [k \in Keys |-> "-"]

IsDigit(c) == \E i \in 1..10 : Char(Digits, i) = c

IsNum(tok) == tok # "" /\ \A i \in 1..Len(tok) : IsDigit(Char(tok, i))

DigitVal(c) == (CHOOSE i \in 1..10 : Char(Digits, i) = c) - 1

RECURSIVE NumVal(_)
NumVal(tok) ==
    IF tok = "" THEN 0
    ELSE 10 * NumVal(SubSeq(tok, 1, Len(tok) - 1)) + DigitVal(Char(tok, Len(tok)))

Punct == {"(", ")", "=", ";"}

\* where the line that holds position i ends
LineEnd(s, i) ==
    IF {j \in i..Len(s) : Char(s, j) = "\n"} = {} THEN Len(s) + 1
    ELSE Min({j \in i..Len(s) : Char(s, j) = "\n"})

\* the tokens of s from position i on: punctuation marks are tokens of their
\* own, whitespace separates, "--" starts a comment that runs to the end of
\* the line, anything else runs up to the next whitespace or punctuation
RECURSIVE Tokenize(_, _)
Tokenize(s, i) ==
    IF i > Len(s) THEN <<>>
    ELSE IF Char(s, i) \in Whitespace THEN Tokenize(s, i + 1)
    ELSE IF i < Len(s) /\ SubSeq(s, i, i + 1) = "--" THEN Tokenize(s, LineEnd(s, i))
    ELSE IF Char(s, i) \in Punct THEN <<Char(s, i)>> \o Tokenize(s, i + 1)
    ELSE LET stops == {j \in i..Len(s) : Char(s, j) \in Whitespace \cup Punct}
             e == IF stops = {} THEN Len(s) + 1 ELSE Min(stops)
         IN <<SubSeq(s, i, e - 1)>> \o Tokenize(s, e)

\* keywords and identifiers are case-insensitive to the database
Tokens(text) == Tokenize(str_lower(text), 1)

\* the tokens of the texts the handlers send, computed once
TokenTable == [t \in SentTexts |-> Tokens(t)]

TokensOf(text) == IF text \in SentTexts THEN TokenTable[text] ELSE Tokens(text)

Keywords == {"select", "from", "as", "limit", "where", "insert", "into",
             "values", "update", "set", "delete", "create", "table", "*"}

IsIdent(tok) == tok \notin Keywords /\ tok \notin Punct /\ ~IsNum(tok)

RECURSIVE RowsFrom(_, _)
RowsFrom(tb, k) ==
    IF k > MaxKey THEN <<>>
    ELSE (IF tb[k] = "-" THEN <<>> ELSE << [id |-> k, v |-> tb[k]] >>)
         \o RowsFrom(tb, k + 1)

TableRows(tb) == RowsFrom(tb, 1)

Take(rows, n) == IF n >= Len(rows) THEN rows ELSE SubSeq(rows, 1, n)

DbOk(rows, rowcount, tabs) ==
    [ok |-> TRUE, rows |-> rows, rowcount |-> rowcount, tabs |-> tabs, err |-> ""]

DbErr(tabs, err) ==
    [ok |-> FALSE, rows |-> <<>>, rowcount |-> -1, tabs |-> tabs, err |-> err]

SyntaxError(tok) == "near \"" \o tok \o "\": syntax error"

NoSuchTable(name) == "no such table: " \o name

DropLast(k, n) == SubSeq(k, 1, Len(k) - n)

\* a SELECT may end in LIMIT n
HasLimit(k) == Len(k) >= 2 /\ k[Len(k) - 1] = "limit" /\ IsNum(k[Len(k)])

limit_of(k) == IF HasLimit(k) THEN NumVal(k[Len(k)]) ELSE -1

strip_limit(k) == IF HasLimit(k) THEN DropLast(k, 2) ELSE k

\* and, before it, in AS alias
HasAlias(k) == Len(k) >= 2 /\ k[Len(k) - 1] = "as" /\ IsIdent(k[Len(k)])

strip_alias(k) == IF HasAlias(k) THEN DropLast(k, 2) ELSE k

\* LIMIT lim applied to the rows of a result
db_cut(r, lim) ==
    IF r.ok /\ lim >= 0 THEN [r EXCEPT !.rows = Take(@, lim)] ELSE r

\* SELECT: core [AS alias] [LIMIT n]
RECURSIVE db_select(_, _)
db_select_core(core, tabs) ==
    IF core = <<"select", "1">>
    THEN DbOk(<< [one |-> 1] >>, -1, tabs)
    ELSE IF Len(core) = 4 /\ SubSeq(core, 1, 3) = <<"select", "*", "from">>
            /\ IsIdent(core[4])
    THEN IF core[4] \in DOMAIN tabs
         THEN DbOk(TableRows(tabs[core[4]]), -1, tabs)
         ELSE DbErr(tabs, NoSuchTable(core[4]))
    ELSE IF Len(core) = 7
            /\ SubSeq(core, 1, 6) = <<"select", "count", "(", "*", ")", "from">>
            /\ IsIdent(core[7])
    THEN IF core[7] \in DOMAIN tabs
         THEN DbOk(<< [count |-> Len(TableRows(tabs[core[7]]))] >>, -1, tabs)
         ELSE DbErr(tabs, NoSuchTable(core[7]))
    ELSE IF Len(core) >= 6 /\ SubSeq(core, 1, 4) = <<"select", "*", "from", "(">>
            /\ core[Len(core)] = ")"
    THEN db_select(SubSeq(core, 5, Len(core) - 1), tabs)
    ELSE DbErr(tabs, SyntaxError(IF Len(core) = 0 THEN "" ELSE core[Len(core)]))

db_select(k, tabs) ==
    db_cut(db_select_core(strip_alias(strip_limit(k)), tabs), limit_of(k))

\* optional WHERE id = n at the end of UPDATE / DELETE
HasWhere(k) ==
    Len(k) >= 4 /\ SubSeq(k, Len(k) - 3, Len(k) - 1) = <<"where", "id", "=">>
    /\ IsNum(k[Len(k)])

Matched(tb, k) ==
    IF HasWhere(k)
    THEN {i \in Keys : tb[i] # "-" /\ i = NumVal(k[Len(k)])}
    ELSE {i \in Keys : tb[i] # "-"}

db_dml(k, tabs) ==
    LET k0 == k
        body == IF HasWhere(k0) THEN DropLast(k0, 4) ELSE k0
    IN
    IF Len(k0) = 7 /\ SubSeq(k0, 1, 2) = <<"insert", "into">> /\ IsIdent(k0[3])
       /\ SubSeq(k0, 4, 5) = <<"values", "(">> /\ IsNum(k0[6]) /\ k0[7] = ")"
    THEN LET name == k0[3]
             key == NumVal(k0[6]) IN
         IF name \notin DOMAIN tabs THEN DbErr(tabs, NoSuchTable(name))
         ELSE IF key \notin Keys
              THEN DbErr(tabs, "CHECK constraint failed: id")
         ELSE IF tabs[name][key] # "-"
              THEN DbErr(tabs, "UNIQUE constraint failed: " \o name \o ".id")
         ELSE DbOk(<<>>, 1, [tabs EXCEPT ![name][key] = "0"])
    ELSE IF Len(body) = 3 /\ SubSeq(body, 1, 2) = <<"delete", "from">>
            /\ IsIdent(body[3])
    THEN LET name == body[3] IN
         IF name \notin DOMAIN tabs THEN DbErr(tabs, NoSuchTable(name))
         ELSE LET m == Matched(tabs[name], k0) IN
              DbOk(<<>>, Cardinality(m),
                   [tabs EXCEPT ![name] =
                       [i \in Keys |-> IF i \in m THEN "-" ELSE @[i]]])
    ELSE IF Len(body) = 6 /\ body[1] = "update" /\ IsIdent(body[2])
            /\ SubSeq(body, 3, 5) = <<"set", "v", "=">> /\ body[6] \in {"0", "1"}
    THEN LET name == body[2] IN
         IF name \notin DOMAIN tabs THEN DbErr(tabs, NoSuchTable(name))
         ELSE LET m == Matched(tabs[name], k0) IN
              DbOk(<<>>, Cardinality(m),
                   [tabs EXCEPT ![name] =
                       [i \in Keys |-> IF i \in m THEN body[6] ELSE @[i]]])
    ELSE DbErr(tabs, SyntaxError(IF Len(k) = 0 THEN "" ELSE k[Len(k)]))

db_ddl(k, tabs) ==
    LET k0 == k IN
    IF Len(k0) = 3 /\ SubSeq(k0, 1, 2) = <<"create", "table">> /\ IsIdent(k0[3])
    THEN IF k0[3] \in DOMAIN tabs
         THEN DbErr(tabs, "table " \o k0[3] \o " already exists")
         ELSE DbOk(<<>>, -1, [n \in DOMAIN tabs \cup {k0[3]} |->
                                  IF n \in DOMAIN tabs THEN tabs[n] ELSE EmptyTable])
    ELSE DbErr(tabs, SyntaxError(IF Len(k) = 0 THEN "" ELSE k[Len(k)]))

\* a statement may end in one ";"
strip_terminator(k) ==
    IF Len(k) >= 1 /\ k[Len(k)] = ";" THEN DropLast(k, 1) ELSE k

db_dispatch(k, tabs) ==
    IF Len(k) = 0 THEN DbErr(tabs, "incomplete input")
    ELSE IF k[1] = "select" THEN db_select(k, tabs)
    ELSE IF k[1] \in {"insert", "update", "delete"} THEN db_dml(k, tabs)
    ELSE IF k[1] = "create" THEN db_ddl(k, tabs)
    ELSE DbErr(tabs, SyntaxError(k[1]))

\* what the database does with one statement text on the working copy tabs
db_execute(text, tabs) == db_dispatch(strip_terminator(TokensOf(text)), tabs)

(***************************************************************************)
(* Exceptions as values.  A DBAPI error wrapped by SQLAlchemy carries the  *)
(* driver's own message in orig; str(e) adds the statement and a link.     *)
(***************************************************************************)
NoExc == [kind |-> "none", has_orig |-> FALSE, orig |-> "", str |-> ""]

DBAPIError(orig, statement) ==
    [kind |-> "SQLAlchemyError", has_orig |-> TRUE, orig |-> orig,
     str |-> "(sqlite3.OperationalError) " \o orig \o "\n[SQL: " \o statement \o "]"]

ArgumentError(msg) ==
    [kind |-> "SQLAlchemyError", has_orig |-> FALSE, orig |-> "", str |-> msg]

KeyError(key) ==
    [kind |-> "KeyError", has_orig |-> FALSE, orig |-> "", str |-> "'" \o key \o "'"]

ValueError(msg) ==
    [kind |-> "ValueError", has_orig |-> FALSE, orig |-> "", str |-> msg]

RuntimeFault(msg) ==
    [kind |-> "Exception", has_orig |-> FALSE, orig |-> "", str |-> msg]

(***************************************************************************)
(* Connector descriptors: dicts, possibly lacking keys.  None is "None".   *)
(***************************************************************************)
None == "None"

dict_get(d, key) == IF key \in DOMAIN d THEN d[key] ELSE None

Truthy(v) == v # None /\ v # ""

\* the first of keys that d lacks, "" when it has them all: d[k] raises KeyError
RECURSIVE MissingKey(_, _)
MissingKey(d, keys) ==
    IF keys = <<>> THEN ""
    ELSE IF Head(keys) \notin DOMAIN d THEN Head(keys)
    ELSE MissingKey(d, Tail(keys))

ServerFields == <<"username", "password", "host", "port", "database">>

ServerUrl(scheme, c) ==
    scheme \o c.username \o ":" \o c.password \o "@" \o c.host \o ":" \o c.port
    \o "/" \o c.database

\* mutant of get_connection_string: the override is honoured for the known
\* dialects only
get_connection_string_checks_dialect(connector) ==
    IF "db_type" \notin DOMAIN connector
    THEN [exc |-> KeyError("db_type"), value |-> ""]
    ELSE IF connector.db_type \notin {"sqlite", "postgresql", "mysql"}
    THEN [exc |-> ValueError("Unsupported database type: " \o connector.db_type),
          value |-> ""]
    ELSE IF Truthy(dict_get(connector, "connection_string"))
    THEN [exc |-> NoExc, value |-> connector.connection_string]
    ELSE [exc |-> NoExc, value |-> "sqlite:///" \o dict_get(connector, "database")]

\* mutant of get_connection_string: an unknown dialect is taken for sqlite
get_connection_string_defaults(connector) ==
    IF Truthy(dict_get(connector, "connection_string"))
    THEN [exc |-> NoExc, value |-> connector.connection_string]
    ELSE [exc |-> NoExc, value |-> "sqlite:///" \o dict_get(connector, "database")]

get_connection_string(connector) ==
    IF Truthy(dict_get(connector, "connection_string"))
    THEN [exc |-> NoExc, value |-> connector.connection_string]
    ELSE IF "db_type" \notin DOMAIN connector
    THEN [exc |-> KeyError("db_type"), value |-> ""]
    ELSE LET db_type == connector.db_type IN
    IF db_type = "sqlite"
    THEN IF "database" \notin DOMAIN connector
         THEN [exc |-> KeyError("database"), value |-> ""]
         ELSE [exc |-> NoExc, value |-> "sqlite:///" \o connector.database]
    ELSE IF db_type \in {"postgresql", "mysql"}
    THEN IF MissingKey(connector, ServerFields) # ""
         THEN [exc |-> KeyError(MissingKey(connector, ServerFields)), value |-> ""]
         ELSE [exc |-> NoExc,
               value |-> ServerUrl(IF db_type = "postgresql" THEN "postgresql://"
                                   ELSE "mysql+pymysql://", connector)]
    ELSE [exc |-> ValueError("Unsupported database type: " \o db_type), value |-> ""]

\* sqlalchemy.create_engine: the URL must parse and name a known dialect
UrlSchemes == {"sqlite:///", "postgresql://", "mysql+pymysql://"}

create_engine(connection_string) ==
    IF \E p \in UrlSchemes : startswith(connection_string, p)
    THEN [exc |-> NoExc, engine |-> connection_string]
    ELSE [exc |-> ArgumentError("Could not parse SQLAlchemy URL from string '"
                                \o connection_string \o "'"),
          engine |-> ""]

EmptyDict == [i \in {} |-> ""]

dict_set(d, key, val) == [i \in DOMAIN d \cup {key} |-> IF i = key THEN val ELSE d[i]]

\* mutant of get_engine: a miss drops the handles of the other ids
get_engine_evicts(connector, eng) ==
    IF "id" \notin DOMAIN connector
    THEN [exc |-> KeyError("id"), engines |-> eng, engine |-> ""]
    ELSE IF connector.id \in DOMAIN eng
    THEN [exc |-> NoExc, engines |-> eng, engine |-> eng[connector.id]]
    ELSE IF get_connection_string(connector).exc.kind # "none"
    THEN [exc |-> get_connection_string(connector).exc, engines |-> eng, engine |-> ""]
    ELSE [exc |-> NoExc,
          engines |-> dict_set(EmptyDict, connector.id,
                               get_connection_string(connector).value),
          engine |-> get_connection_string(connector).value]

\* mutant of get_engine: a hit with a descriptor that builds another string
\* constructs a handle from it and stores that
get_engine_keyed_by_descriptor(connector, eng) ==
    IF "id" \notin DOMAIN connector
    THEN [exc |-> KeyError("id"), engines |-> eng, engine |-> ""]
    ELSE IF get_connection_string(connector).exc.kind # "none"
    THEN [exc |-> get_connection_string(connector).exc, engines |-> eng, engine |-> ""]
    ELSE IF connector.id \in DOMAIN eng
            /\ eng[connector.id] = get_connection_string(connector).value
    THEN [exc |-> NoExc, engines |-> eng, engine |-> eng[connector.id]]
    ELSE [exc |-> NoExc,
          engines |-> dict_set(eng, connector.id, get_connection_string(connector).value),
          engine |-> get_connection_string(connector).value]

\* mutant of get_engine: a handle is constructed and stored at every call
get_engine_rebuilds(connector, eng) ==
    IF "id" \notin DOMAIN connector
    THEN [exc |-> KeyError("id"), engines |-> eng, engine |-> ""]
    ELSE IF get_connection_string(connector).exc.kind # "none"
    THEN [exc |-> get_connection_string(connector).exc, engines |-> eng, engine |-> ""]
    ELSE [exc |-> NoExc,
          engines |-> dict_set(eng, connector.id, get_connection_string(connector).value),
          engine |-> get_connection_string(connector).value]

\* self.get_engine(connector['id'], connector) on the cache eng
get_engine(connector, eng) ==
    IF "id" \notin DOMAIN connector
    THEN [exc |-> KeyError("id"), engines |-> eng, engine |-> ""]
    ELSE LET connector_id == connector.id IN
    IF connector_id \notin DOMAIN eng
    THEN LET cs == get_connection_string(connector) IN
         IF cs.exc.kind # "none"
         THEN [exc |-> cs.exc, engines |-> eng, engine |-> ""]
         ELSE LET ce == create_engine(cs.value) IN
              IF ce.exc.kind # "none"
              THEN [exc |-> ce.exc, engines |-> eng, engine |-> ""]
              ELSE [exc |-> NoExc, engines |-> dict_set(eng, connector_id, ce.engine),
                    engine |-> ce.engine]
    ELSE [exc |-> NoExc, engines |-> eng, engine |-> eng[connector_id]]

(***************************************************************************)
(* The driver's failures that do not depend on the statement: each call of *)
(* a handler runs against a set F of points at which the driver raises.    *)
(***************************************************************************)
\* the driver calls validate_query makes
ValidatePoints == {"connect", "execute", "execute_retry", "rollback",
                   "rollback_handler"}

\* the driver calls execute_query makes
ExecutePoints == {"connect", "execute", "rowcount", "commit", "rollback",
                  "rollback_handler"}

\* the same, and whether the dialect applies DDL as it executes (sqlite and
\* mysql do, postgresql keeps it inside the transaction)
DDLPoints == ExecutePoints \cup {"autocommit"}

\* the driver calls get_schema and test_connection make
ProbePoints == {"connect", "execute"}

FaultSets(points) == {F \in SUBSET points : Cardinality(F) <= MaxFaults}

\* the databases that answer
LiveUrls == {"sqlite:///test.db", "postgresql://app:secret@db:5432/shop"}

\* engine.connect()
engine_connect(engine, F) ==
    IF engine \notin LiveUrls \/ "connect" \in F
    THEN DBAPIError("unable to open database file", "")
    ELSE NoExc

\* conn.execute(text(statement)) on the connection's working copy
conn_returned(r, statement) ==
    [exc |-> IF r.ok THEN NoExc ELSE DBAPIError(r.err, statement), db |-> r]

conn_execute(statement, work, fault) ==
    IF fault THEN [exc |-> DBAPIError("disk I/O error", statement), db |-> DbErr(work, "")]
    ELSE conn_returned(db_execute(statement, work), statement)

\* postgresql aborts the transaction at the first error and refuses every
\* statement until it is rolled back; sqlite and mysql carry on
AbortsOnError(engine) == startswith(engine, "postgresql")

InFailedSqlTransaction ==
    "current transaction is aborted, commands ignored until end of transaction block"

\* mutant of conn_execute_after: the transaction was rolled back in between
conn_execute_after_rollback(first, engine, statement, work, fault) ==
    conn_execute(statement, work, fault)

\* conn.execute(text(statement)) on a connection whose transaction has
\* already executed a statement, which returned or raised first
conn_execute_after(first, engine, statement, work, fault) ==
    IF first.exc.kind # "none" /\ AbortsOnError(engine)
    THEN [exc |-> DBAPIError(InFailedSqlTransaction, statement), db |-> DbErr(work, "")]
    ELSE conn_execute(statement, work, fault)

Outcome(result, raised, eng, tabs, events, dirty, tx) ==
    [result |-> result, raised |-> raised, engines |-> eng, tables |-> tabs,
     events |-> events, dirty |-> dirty, tx |-> tx]

\* a driver call the handler made, and whether it raised
Ok(call) == [call |-> call, raised |-> FALSE]

Raised(call) == [call |-> call, raised |-> TRUE]

Did(call, fails) == [call |-> call, raised |-> fails]

Calls(events, name) == {i \in 1..Len(events) : events[i].call = name}

Count(events, name) == Cardinality(Calls(events, name))

NoResult == [none |-> TRUE]

\* an exception that leaves the public operation
Escaped(e) == [exception |-> e.kind, detail |-> e.str]

(***************************************************************************)
(* execute_query                                                           *)
(***************************************************************************)
\* the two except clauses at the end of execute_query
execute_failure(e) ==
    IF e.kind = "SQLAlchemyError"
    THEN LET error_msg == first_line(IF e.has_orig THEN e.orig ELSE e.str) IN
         [success |-> FALSE, error |-> error_msg,
          message |-> "Failed to execute query: " \o error_msg]
    ELSE [success |-> FALSE, error |-> e.str,
          message |-> "Unexpected error: " \o e.str]

\* mutants of execute_dml_finish: a dry run that commits, a real run that
\* rolls back
execute_dml_finish_commits(dry_run) == "commit"

execute_dml_finish_rolls_back(dry_run) == "rollback"

\* DML branch, lines 221-234: the call that ends the transaction
execute_dml_finish(dry_run) == IF dry_run THEN "rollback" ELSE "commit"

\* mutant of execute_dml_result: the dry run reads the row count after the
\* rollback, when no row is affected any more
execute_dml_result_stale(query_type, affected_rows, dry_run) ==
    IF dry_run
    THEN [success |-> TRUE,
          message |-> "Dry-run successful: 0 row(s) would be affected",
          affected_rows |-> 0,
          query_type |-> query_type,
          dry_run |-> TRUE,
          warning |-> "Changes were NOT committed (dry-run mode)"]
    ELSE [success |-> TRUE,
          message |-> "Query executed successfully: " \o int_str(affected_rows)
                      \o " row(s) affected",
          affected_rows |-> affected_rows,
          query_type |-> query_type,
          dry_run |-> FALSE]

\* DML branch: the two result dicts
execute_dml_result(query_type, affected_rows, dry_run) ==
    IF dry_run
    THEN [success |-> TRUE,
          message |-> "Dry-run successful: " \o int_str(affected_rows)
                      \o " row(s) would be affected",
          affected_rows |-> affected_rows,
          query_type |-> query_type,
          dry_run |-> TRUE,
          warning |-> "Changes were NOT committed (dry-run mode)"]
    ELSE [success |-> TRUE,
          message |-> "Query executed successfully: " \o int_str(affected_rows)
                      \o " row(s) affected",
          affected_rows |-> affected_rows,
          query_type |-> query_type,
          dry_run |-> FALSE]

\* what a try block of a DML branch leaves behind: the exception in flight,
\* the driver calls made, the state of the transaction, the result dict and
\* the connection's working copy of the tables
TxBlock(e, ev, tx, res, work) ==
    [exc |-> e, events |-> ev, tx |-> tx, result |-> res, work |-> work]

TxEnded(finish) == IF finish = "commit" THEN "committed" ELSE "rolledback"

\* mutant of execute_dml_except: the handler re-raises without rolling back
execute_dml_except_bare(blk, F) == blk

\* DML branch: except Exception: trans.rollback(); raise
execute_dml_except(blk, F) ==
    IF "rollback_handler" \in F
    THEN [blk EXCEPT !.exc = DBAPIError("cannot rollback", ""),
                     !.events = Append(@, Raised("rollback"))]
    ELSE [blk EXCEPT !.events = Append(@, Ok("rollback")), !.tx = "rolledback"]

\* mutant of execute_dml_try: a statement that raised is sent once more
execute_dml_try_retries(ex, finish, query_type, dry_run, F) ==
    IF ex.exc.kind # "none"
    THEN TxBlock(ex.exc, <<Ok("begin"), Raised("execute"), Raised("execute")>>, "open",
                 NoResult, ex.db.tabs)
    ELSE TxBlock(NoExc,
                 <<Ok("begin"), Ok("execute"), Ok("rowcount"), Ok(finish)>>,
                 TxEnded(finish),
                 execute_dml_result(query_type, ex.db.rowcount, dry_run),
                 ex.db.tabs)

\* DML branch, the try block after conn.execute returned or raised ex:
\* rowcount, then rollback or commit
execute_dml_try(ex, finish, query_type, dry_run, F) ==
    IF ex.exc.kind # "none"
    THEN TxBlock(ex.exc, <<Ok("begin"), Raised("execute")>>, "open", NoResult,
                 ex.db.tabs)
    ELSE IF "rowcount" \in F
    THEN TxBlock(RuntimeFault("rowcount is not available"),
                 <<Ok("begin"), Ok("execute"), Raised("rowcount")>>, "open",
                 NoResult, ex.db.tabs)
    ELSE IF finish \in F
    THEN TxBlock(DBAPIError("cannot " \o finish, ""),
                 <<Ok("begin"), Ok("execute"), Ok("rowcount"), Raised(finish)>>,
                 "open", NoResult, ex.db.tabs)
    ELSE TxBlock(NoExc,
                 <<Ok("begin"), Ok("execute"), Ok("rowcount"), Ok(finish)>>,
                 TxEnded(finish),
                 execute_dml_result(query_type, ex.db.rowcount, dry_run),
                 ex.db.tabs)

execute_dml_handled(try, F) ==
    IF try.exc.kind = "none" THEN try ELSE execute_dml_except(try, F)

\* DML branch: trans = conn.begin(); try: execute, rowcount, rollback or commit
execute_dml(sql_query, dry_run, F, tabs) ==
    execute_dml_handled(
        execute_dml_try(conn_execute(sql_query, tabs, "execute" \in F),
                        execute_dml_finish(dry_run),
                        execute_branch_of(sql_query), dry_run, F),
        F)

\* what the connection's close does to a transaction still open
CloseTx(tx) == IF tx = "open" THEN "discarded" ELSE tx

\* SELECT branch after conn.execute returned or raised ex
execute_select_returned(ex, ge, tabs) ==
    Outcome(IF ex.exc.kind # "none" THEN execute_failure(ex.exc)
            ELSE [success |-> TRUE, data |-> ex.db.rows,
                  row_count |-> Len(ex.db.rows),
                  query_type |-> "SELECT", dry_run |-> FALSE],
            FALSE, ge.engines, tabs,
            <<Ok("connect"), Did("execute", ex.exc.kind # "none"), Ok("close")>>,
            FALSE, "none")

\* DML branch after its try/except left b: the with block closes the
\* connection, then the result is returned or the exception is caught
dml_returned(b, failed, ge, tabs) ==
    Outcome(IF b.exc.kind # "none" THEN failed ELSE b.result,
            FALSE, ge.engines,
            IF b.tx = "committed" THEN b.work ELSE tabs,
            <<Ok("connect")>> \o b.events \o <<Ok("close")>>,
            b.work # tabs, CloseTx(b.tx))

execute_dml_returned(b, ge, tabs) == dml_returned(b, execute_failure(b.exc), ge, tabs)

\* DDL branch after conn.execute returned or raised ex: conn.commit()
execute_ddl_returned(ex, F, ge, tabs) ==
    IF ex.exc.kind # "none"
    THEN Outcome(execute_failure(ex.exc), FALSE, ge.engines, tabs,
                 <<Ok("connect"), Raised("execute"), Ok("close")>>, FALSE, "none")
    ELSE IF "commit" \in F
    THEN \* a dialect that applies DDL as it executes keeps it although the
         \* commit raised; a transactional one discards it with the connection
         Outcome(execute_failure(DBAPIError("database is locked", "")), FALSE,
                 ge.engines, IF "autocommit" \in F THEN ex.db.tabs ELSE tabs,
                 <<Ok("connect"), Ok("execute"), Raised("commit"), Ok("close")>>,
                 ex.db.tabs # tabs, "discarded")
    ELSE Outcome([success |-> TRUE, message |-> "Query executed successfully",
                  query_type |-> "DDL/Other", dry_run |-> FALSE],
                 FALSE, ge.engines, ex.db.tabs,
                 <<Ok("connect"), Ok("execute"), Ok("commit"), Ok("close")>>,
                 ex.db.tabs # tabs, "committed")

\* mutant of execute_ddl: the dry run is not refused, the statement runs
execute_ddl_ignores_dry_run(sql_query, dry_run, F, ge, tabs) ==
    execute_ddl_returned(conn_execute(sql_query, tabs, "execute" \in F), F, ge, tabs)

\* DDL branch, lines 246-264: a dry run is refused before anything is sent
execute_ddl(sql_query, dry_run, F, ge, tabs) ==
    IF dry_run
    THEN Outcome([success |-> FALSE,
                  message |-> "Dry-run mode is not supported for DDL queries",
                  query_type |-> "DDL", dry_run |-> TRUE],
                 FALSE, ge.engines, tabs, <<Ok("connect"), Ok("close")>>, FALSE, "none")
    ELSE execute_ddl_returned(conn_execute(sql_query, tabs, "execute" \in F),
                              F, ge, tabs)

\* the three branches of execute_query, inside with engine.connect()
execute_branches(branch, sql_query, limit, dry_run, F, ge, tabs) ==
    IF branch = "SELECT"
    THEN execute_select_returned(
             conn_execute(execute_select_text_of(sql_query, limit), tabs,
                          "execute" \in F),
             ge, tabs)
    ELSE IF branch \in DMLClasses \cup {"DML"}
    THEN execute_dml_returned(execute_dml(sql_query, dry_run, F, tabs), ge, tabs)
    ELSE execute_ddl(sql_query, dry_run, F, ge, tabs)

\* execute_query once get_engine returned or raised ge
execute_with_engine(ge, co, sql_query, limit, dry_run, F, eng, tabs) ==
    IF ge.exc.kind # "none"
    THEN Outcome(execute_failure(ge.exc), FALSE, eng, tabs, <<>>, FALSE, "none")
    ELSE IF co.kind # "none"
    THEN Outcome(execute_failure(co), FALSE, ge.engines, tabs, <<Raised("connect")>>,
                 FALSE, "none")
    ELSE execute_branches(execute_branch_of(sql_query), sql_query, limit, dry_run,
                          F, ge, tabs)

execute_query(sql_query, connector, limit, dry_run, F, eng, tabs) ==
    execute_with_engine(get_engine(connector, eng),
                        engine_connect(get_engine(connector, eng).engine, F),
                        sql_query, limit, dry_run, F, eng, tabs)

(***************************************************************************)
(* validate_query                                                          *)
(***************************************************************************)
\* the two except clauses at the end of validate_query
validate_failure(e) ==
    IF e.kind = "SQLAlchemyError"
    THEN [valid |-> FALSE,
          message |-> first_line(IF e.has_orig THEN e.orig ELSE e.str),
          error |-> e.str]
    ELSE [valid |-> FALSE, message |-> "Validation error: " \o e.str,
          error |-> e.str]

\* mutant of validate_dml_finish: validation commits what it executed
validate_dml_finish_commits == "commit"

\* DML branch, line 101: the call that ends the transaction
validate_dml_finish == "rollback"

\* mutant of validate_dml_except: the handler re-raises without rolling back
validate_dml_except_bare(blk, F) == blk

\* DML branch: except Exception: trans.rollback(); raise
validate_dml_except(blk, F) ==
    IF "rollback_handler" \in F
    THEN [blk EXCEPT !.exc = DBAPIError("cannot rollback", ""),
                     !.events = Append(@, Raised("rollback"))]
    ELSE [blk EXCEPT !.events = Append(@, Ok("rollback")), !.tx = "rolledback"]

\* DML branch, the try block after conn.execute returned or raised ex
validate_dml_try(ex, finish, query_type, F) ==
    IF ex.exc.kind # "none"
    THEN TxBlock(ex.exc, <<Ok("begin"), Raised("execute")>>, "open", NoResult,
                 ex.db.tabs)
    ELSE IF finish \in F
    THEN TxBlock(DBAPIError("cannot " \o finish, ""),
                 <<Ok("begin"), Ok("execute"), Raised(finish)>>, "open", NoResult,
                 ex.db.tabs)
    ELSE TxBlock(NoExc, <<Ok("begin"), Ok("execute"), Ok(finish)>>,
                 TxEnded(finish),
                 [valid |-> TRUE,
                  message |-> "Query syntax is valid (dry-run successful)",
                  query_type |-> query_type,
                  warning |-> "This query will modify data. Use with caution."],
                 ex.db.tabs)

validate_dml_handled(try, F) ==
    IF try.exc.kind = "none" THEN try ELSE validate_dml_except(try, F)

\* DML branch: trans = conn.begin(); try: execute, rollback
validate_dml(sql_query, F, tabs) ==
    validate_dml_handled(
        validate_dml_try(conn_execute(sql_query, tabs, "execute" \in F),
                         validate_dml_finish, validate_branch_of(sql_query), F),
        F)

validate_dml_returned(b, ge, tabs) == dml_returned(b, validate_failure(b.exc), ge, tabs)

\* mutant of validate_select_valid: the dict lacks its query_type
validate_select_valid_untyped ==
    [valid |-> TRUE, message |-> "Query is valid (dry-run successful)"]

validate_select_valid ==
    [valid |-> TRUE, message |-> "Query is valid (dry-run successful)",
     query_type |-> "SELECT"]

\* SELECT branch: the wrapped statement, and the fallback when it raised
validate_select_returned(first, second, ge, tabs) ==
    IF first.exc.kind = "none"
    THEN Outcome(validate_select_valid, FALSE, ge.engines, tabs,
                 <<Ok("connect"), Ok("execute"), Ok("close")>>, FALSE, "none")
    ELSE Outcome(IF second.exc.kind = "none" THEN validate_select_valid
                 ELSE validate_failure(second.exc),
                 FALSE, ge.engines, tabs,
                 <<Ok("connect"), Raised("execute"),
                   Did("execute", second.exc.kind # "none"), Ok("close")>>,
                 FALSE, "none")

validate_other_valid ==
    [valid |-> TRUE,
     message |-> "Query syntax appears valid (limited validation for DDL)",
     query_type |-> "DDL/Other",
     warning |-> "DDL queries cannot be fully validated without execution."]

\* what the else branch of validate_query returns once the statement was
\* executed and returned or raised ex
validate_other_executed(ex, ge, tabs) ==
    Outcome(IF ex.exc.kind = "none" THEN validate_other_valid
            ELSE validate_failure(ex.exc),
            FALSE, ge.engines, ex.db.tabs,
            <<Ok("connect"), Did("execute", ex.exc.kind # "none"), Ok("close")>>,
            FALSE, "none")

\* mutant of validate_other: the statement is executed to validate it
validate_other_executes(sql_query, ge, tabs) ==
    validate_other_executed(conn_execute(sql_query, tabs, FALSE), ge, tabs)

\* else branch: stmt = text(sql_query); stmt.compile(engine): nothing is sent
validate_other(sql_query, ge, tabs) ==
    Outcome(validate_other_valid, FALSE, ge.engines, tabs,
            <<Ok("connect"), Ok("close")>>, FALSE, "none")

\* the three branches of validate_query, inside with engine.connect()
validate_branches(branch, sql_query, F, ge, tabs) ==
    IF branch = "SELECT"
    THEN validate_select_returned(
             conn_execute(validate_wrapped_text_of(sql_query), tabs, "execute" \in F),
             conn_execute_after(
                 conn_execute(validate_wrapped_text_of(sql_query), tabs, "execute" \in F),
                 ge.engine, validate_fallback_text_of(sql_query), tabs,
                 "execute_retry" \in F),
             ge, tabs)
    ELSE IF branch \in DMLClasses \cup {"DML"}
    THEN validate_dml_returned(validate_dml(sql_query, F, tabs), ge, tabs)
    ELSE validate_other(sql_query, ge, tabs)

\* validate_query once get_engine returned or raised ge
validate_with_engine(ge, co, sql_query, F, eng, tabs) ==
    IF ge.exc.kind # "none"
    THEN Outcome(validate_failure(ge.exc), FALSE, eng, tabs, <<>>, FALSE, "none")
    ELSE IF co.kind # "none"
    THEN Outcome(validate_failure(co), FALSE, ge.engines, tabs, <<Raised("connect")>>,
                 FALSE, "none")
    ELSE validate_branches(validate_branch_of(sql_query), sql_query, F, ge, tabs)

validate_query(sql_query, connector, F, eng, tabs) ==
    validate_with_engine(get_engine(connector, eng),
                         engine_connect(get_engine(connector, eng).engine, F),
                         sql_query, F, eng, tabs)

(***************************************************************************)
(* get_schema, test_connection, generate_default_queries                   *)
(***************************************************************************)
\* inspector.get_table_names() lists the tables by name
TableOrder == <<"audit", "users">>

InDomainOf(tabs) == LET Test(n) == n \in DOMAIN tabs IN SelectSeq(TableOrder, Test)

table_entry(name) ==
    [name |-> name, columns |-> <<"id", "v">>, primary_keys |-> <<"id">>,
     foreign_keys |-> <<>>]

get_schema_failure(e) ==
    [success |-> FALSE, error |-> e.str, message |-> "Failed to get schema: " \o e.str]

\* get_schema catches SQLAlchemyError only: any other exception leaves it
get_schema_leave(e, engs, tabs, ev) ==
    IF e.kind = "SQLAlchemyError"
    THEN Outcome(get_schema_failure(e), FALSE, engs, tabs, ev, FALSE, "none")
    ELSE Outcome(Escaped(e), TRUE, engs, tabs, ev, FALSE, "none")

get_schema_inspected(names, connector, ge, tabs) ==
    Outcome([success |-> TRUE,
             database |-> IF "database" \in DOMAIN connector
                          THEN connector.database ELSE "unknown",
             tables |-> [i \in 1..Len(names) |-> table_entry(names[i])],
             table_count |-> Len(names)],
            FALSE, ge.engines, tabs, <<Ok("connect"), Ok("execute"), Ok("close")>>,
            FALSE, "none")

get_schema_with_engine(ge, co, connector, F, eng, tabs) ==
    IF ge.exc.kind # "none" THEN get_schema_leave(ge.exc, eng, tabs, <<>>)
    ELSE IF co.kind # "none"
    THEN get_schema_leave(co, ge.engines, tabs, <<Raised("connect")>>)
    ELSE IF "execute" \in F
    THEN get_schema_leave(DBAPIError("disk I/O error", "PRAGMA main.table_info"),
                          ge.engines, tabs,
                          <<Ok("connect"), Raised("execute"), Ok("close")>>)
    ELSE get_schema_inspected(InDomainOf(tabs), connector, ge, tabs)

get_schema(connector, F, eng, tabs) ==
    get_schema_with_engine(get_engine(connector, eng),
                           engine_connect(get_engine(connector, eng).engine, F),
                           connector, F, eng, tabs)

test_connection_failure(e) ==
    [success |-> FALSE, error |-> e.str, message |-> "Connection failed: " \o e.str]

\* mutant of test_connection_returned: success whatever the probe did
test_connection_returned_blind(ex, ge, tabs) ==
    Outcome([success |-> TRUE, message |-> "Connection successful"],
            FALSE, ge.engines, tabs,
            <<Ok("connect"), Did("execute", ex.exc.kind # "none"), Ok("close")>>,
            FALSE, "none")

test_connection_returned(ex, ge, tabs) ==
    Outcome(IF ex.exc.kind # "none" THEN test_connection_failure(ex.exc)
            ELSE [success |-> TRUE, message |-> "Connection successful"],
            FALSE, ge.engines, tabs,
            <<Ok("connect"), Did("execute", ex.exc.kind # "none"), Ok("close")>>,
            FALSE, "none")

test_connection_with_engine(ge, co, F, eng, tabs) ==
    IF ge.exc.kind # "none"
    THEN Outcome(test_connection_failure(ge.exc), FALSE, eng, tabs, <<>>, FALSE, "none")
    ELSE IF co.kind # "none"
    THEN Outcome(test_connection_failure(co), FALSE, ge.engines, tabs,
                 <<Raised("connect")>>, FALSE, "none")
    ELSE test_connection_returned(conn_execute("SELECT 1", tabs, "execute" \in F),
                                  ge, tabs)

test_connection(connector, F, eng, tabs) ==
    test_connection_with_engine(get_engine(connector, eng),
                                engine_connect(get_engine(connector, eng).engine, F),
                                F, eng, tabs)

default_query(table) ==
    [table_name |-> table.name,
     query_name |-> "Select all from " \o table.name,
     description |-> "Get all records from " \o table.name \o " table",
     sql_query |-> "SELECT * FROM " \o table.name,
     query_type |-> "SELECT"]

\* mutant of default_queries: the suggestions in reverse order
default_queries_reversed(tables_, connector) ==
    [success |-> TRUE, connector_id |-> connector.id,
     queries |-> [i \in 1..Len(tables_) |->
                     default_query(tables_[Len(tables_) + 1 - i])],
     query_count |-> Len(tables_)]

default_queries(tables_, connector) ==
    [success |-> TRUE, connector_id |-> connector.id,
     queries |-> [i \in 1..Len(tables_) |-> default_query(tables_[i])],
     query_count |-> Len(tables_)]

\* generate_default_queries once get_schema returned or raised sc
generate_from_schema(sc, connector) ==
    IF sc.raised
    THEN [sc EXCEPT !.raised = FALSE,
                    !.result = [success |-> FALSE, error |-> sc.result.detail,
                                message |-> "Failed to generate default queries: "
                                            \o sc.result.detail]]
    ELSE IF ~sc.result.success THEN sc
    ELSE [sc EXCEPT !.result = default_queries(sc.result.tables, connector)]

generate_default_queries(connector, F, eng, tabs) ==
    generate_from_schema(get_schema(connector, F, eng, tabs), connector)

(***************************************************************************)
(* Connector descriptors the calls are made with                           *)
(***************************************************************************)
SqliteConnector ==
    [id |-> "c1", db_type |-> "sqlite", database |-> "test.db",
     connection_string |-> None]

UnknownDialect ==
    [id |-> "c2", db_type |-> "oracle", database |-> "orcl",
     connection_string |-> None]

NoIdConnector == [db_type |-> "sqlite", database |-> "test.db"]

Connectors == {SqliteConnector, UnknownDialect, NoIdConnector}

(***************************************************************************)
(* State: the engine cache, the committed database, the last call made     *)
(***************************************************************************)
CallRecord(op, sql, connector, limit, dry_run, o) ==
    [op |-> op, sql |-> sql, connector |-> connector, limit |-> limit,
     dry_run |-> dry_run, result |-> o.result, raised |-> o.raised,
     events |-> o.events, dirty |-> o.dirty, tx |-> o.tx]

NoCall ==
    [op |-> "none", sql |-> "", connector |-> SqliteConnector, limit |-> 0,
     dry_run |-> FALSE, result |-> NoResult, raised |-> FALSE,
     events |-> <<>>, dirty |-> FALSE, tx |-> "none"]

NoProbe == [sql |-> "", validate |-> "", execute |-> ""]

Init ==
    /\ engines = EmptyDict
    /\ tables \in {[n \in {"users"} |-> tb] : tb \in [Keys -> Cells]}
    /\ last = NoCall
    /\ probe = NoProbe

Return(op, sql, connector, limit, dry_run, o) ==
    /\ engines' = o.engines
    /\ tables' = o.tables
    /\ last' = CallRecord(op, sql, connector, limit, dry_run, o)
    /\ UNCHANGED probe

\* one call of a public operation, its inputs drawn from the given sets
ValidateQueryOn(sqls, connectors, faults) ==
    \E sql \in sqls, c \in connectors, F \in faults :
        Return("validate_query", sql, c, 0, FALSE,
               validate_query(sql, c, F, engines, tables))

ExecuteQueryOn(sqls, connectors, faults, limits) ==
    \E sql \in sqls, c \in connectors, F \in faults,
       limit \in limits, dry_run \in BOOLEAN :
        Return("execute_query", sql, c, limit, dry_run,
               execute_query(sql, c, limit, dry_run, F, engines, tables))

GetSchemaOn(connectors, faults) ==
    \E c \in connectors, F \in faults :
        Return("get_schema", "", c, 0, FALSE, get_schema(c, F, engines, tables))

TestConnectionOn(connectors, faults) ==
    \E c \in connectors, F \in faults :
        Return("test_connection", "", c, 0, FALSE,
               test_connection(c, F, engines, tables))

GenerateDefaultQueriesOn(connectors, faults) ==
    \E c \in connectors, F \in faults :
        Return("generate_default_queries", "", c, 0, FALSE,
               generate_default_queries(c, F, engines, tables))

(***************************************************************************)
(* Spec: DML statements and a row count against the live database, with    *)
(* every combination of at most MaxFaults driver failures                  *)
(***************************************************************************)
CountText == "SELECT COUNT(*) FROM users"

ValidateQuery ==
    ValidateQueryOn(DMLTexts, {SqliteConnector}, FaultSets(ValidatePoints))

ExecuteQuery ==
    ExecuteQueryOn(DMLTexts \cup {CountText}, {SqliteConnector},
                   FaultSets(ExecutePoints), {DefaultLimit})

Next ==
    \/ ValidateQuery
    \/ ExecuteQuery

Spec == Init /\ [][Next]_vars

TypeOK ==
    /\ DOMAIN engines \subseteq {"c1", "c2"}
    /\ \A n \in DOMAIN tables : tables[n] \in [Keys -> Cells]
    /\ last.tx \in {"none", "committed", "rolledback", "discarded"}

(***************************************************************************)
(* Properties of the transaction handling                                  *)
(***************************************************************************)
IsValidateDML(r) ==
    r.op = "validate_query" /\ validate_branch_of(r.sql) \in DMLClasses

IsExecuteDML(r) ==
    r.op = "execute_query" /\ execute_branch_of(r.sql) \in DMLClasses

Opened(r) == Calls(r.events, "begin") # {}

\* positions of the calls that end a transaction, and of the calls that raised
Endings(r) == Calls(r.events, "commit") \cup Calls(r.events, "rollback")

RaisedAt(r) == {i \in 1..Len(r.events) : r.events[i].raised}

Succeeded(r) == "success" \in DOMAIN r.result /\ r.result.success

RowCount(tabs) == Len(TableRows(tabs["users"]))

\* C1: validate_query of an INSERT/UPDATE/DELETE statement leaves the
\* committed contents of every table as they were, when the statement
\* executes successfully and when it fails.
C1_ValidateLeavesTablesUnchanged ==
    [][IsValidateDML(last') => tables' = tables]_vars

\* a valid DML statement was executed by validate_query, changed rows inside
\* its transaction and was rolled back
C1_Witness ==
    /\ IsValidateDML(last)
    /\ last.result.valid
    /\ last.dirty
    /\ last.tx = "rolledback"

\* C2 as stated: every dry run of a DML statement leaves the committed tables
\* unchanged and its result carries dry_run = TRUE.
C2_Original ==
    [][(IsExecuteDML(last') /\ last'.dry_run)
       => /\ tables' = tables
          /\ "dry_run" \in DOMAIN last'.result
          /\ last'.result.dry_run = TRUE]_vars

\* C2 (amended): every dry run of a DML statement leaves the committed tables
\* unchanged, so a later SELECT sees the rows it saw before; the result of a
\* dry run that succeeds carries dry_run = TRUE, the result of one that fails
\* is the failure dict, which has no dry_run key.
C2_DryRunLeavesTablesUnchanged ==
    [][(IsExecuteDML(last') /\ last'.dry_run)
       => /\ tables' = tables
          /\ db_execute("SELECT * FROM users", tables').rows
             = db_execute("SELECT * FROM users", tables).rows
          /\ Succeeded(last') => last'.result.dry_run = TRUE
          /\ ~Succeeded(last') => "dry_run" \notin DOMAIN last'.result]_vars

\* a dry run that affected rows inside its transaction and reported them
C2_Witness ==
    /\ IsExecuteDML(last)
    /\ last.dry_run
    /\ Succeeded(last)
    /\ last.result.affected_rows >= 1
    /\ last.dirty

HasAffectedRows(result) == "affected_rows" \in DOMAIN result

\* C3: from one state of the cache and the database, the dry run and the real
\* run of a DML statement report the same affected_rows: whenever the call
\* made reports a value, the call with the other dry_run value reports it too
\* when the driver does not fail, and reports no other value when it does.
C3_SameAffectedRows ==
    [][(IsExecuteDML(last') /\ HasAffectedRows(last'.result))
       => \A F \in FaultSets(ExecutePoints) :
             LET other == execute_query(last'.sql, last'.connector, last'.limit,
                                        ~last'.dry_run, F, engines, tables).result
             IN /\ HasAffectedRows(other)
                   => other.affected_rows = last'.result.affected_rows
                /\ F = {} => HasAffectedRows(other)]_vars

\* a real run that changed two rows
C3_Witness ==
    /\ IsExecuteDML(last)
    /\ ~last.dry_run
    /\ Succeeded(last)
    /\ last.result.affected_rows = 2

InsertCommitted(r) ==
    /\ r.op = "execute_query"
    /\ execute_branch_of(r.sql) = "INSERT"
    /\ ~r.dry_run
    /\ Succeeded(r)

CountReturned(r) ==
    r.op = "execute_query" /\ r.sql = CountText /\ Succeeded(r)

\* C4: a real run of a one-row INSERT that returns success leaves one more
\* row committed than there was, and the row count that execute_query returns
\* next through the same connector is the committed count.
C4_InsertVisibleToLaterCount ==
    [][/\ InsertCommitted(last') => RowCount(tables') = RowCount(tables) + 1
       /\ (InsertCommitted(last) /\ CountReturned(last')
           /\ last'.connector = last.connector)
          => last'.result.data = << [count |-> RowCount(tables)] >>]_vars

\* an INSERT was committed and its row is in the table
C4_Witness ==
    /\ InsertCommitted(last)
    /\ last.tx = "committed"
    /\ last.result.affected_rows = 1
    /\ tables["users"][1] # "-"

\* C5 as stated: every DML execute_query call that opens a transaction invokes
\* exactly one of commit and rollback before it returns.
C5_Original ==
    (IsExecuteDML(last) /\ Opened(last)) => Cardinality(Endings(last)) = 1

\* C5 (amended): every DML execute_query call that opens a transaction invokes
\* commit or rollback at least once before it returns; it invokes exactly one
\* of them unless that call itself raises, and then the handler invokes
\* rollback once more: commit is never invoked twice nor after a rollback.
C5_CommitOrRollbackReached ==
    (IsExecuteDML(last) /\ Opened(last))
    => LET ends == Endings(last) IN
       /\ Cardinality(ends) \in {1, 2}
       /\ Cardinality(ends) = 2 <=> \E i \in ends : i # Max(ends) /\ i \in RaisedAt(last)
       /\ \A i \in ends : last.events[i].call = "commit" => i = Min(ends)
       /\ \A i \in ends : i < Max(Calls(last.events, "close"))

\* commit raised and the handler rolled back
C5_Witness ==
    /\ IsExecuteDML(last)
    /\ \E i \in Calls(last.events, "commit") : i \in RaisedAt(last)
    /\ Count(last.events, "rollback") = 1

\* C6: when a driver call raises after validate_query or execute_query opened
\* a DML transaction, rollback is invoked after it and before the connection
\* is closed, the call returns a failure and nothing was committed; no call
\* returns with a transaction open; validate_query never invokes commit.
C6_RollbackOnException ==
    /\ ((IsValidateDML(last) \/ IsExecuteDML(last)) /\ Opened(last)
        /\ RaisedAt(last) # {})
       => /\ \E i \in Calls(last.events, "rollback") :
                /\ i > Min(RaisedAt(last))
                /\ i < Max(Calls(last.events, "close"))
          /\ last.tx \in {"rolledback", "discarded"}
          /\ ~Succeeded(last)
          /\ "valid" \in DOMAIN last.result => ~last.result.valid
    /\ Opened(last) => last.tx \in {"committed", "rolledback", "discarded"}
                       /\ last.events[Len(last.events)] = Ok("close")
    /\ last.op = "validate_query"
       => Count(last.events, "commit") = 0 /\ last.tx # "committed"

\* the statement raised inside validate_query's transaction, which was
\* rolled back
C6_Witness ==
    /\ IsValidateDML(last)
    /\ Raised("execute") \in {last.events[i] : i \in 1..Len(last.events)}
    /\ last.tx = "rolledback"
    /\ ~last.result.valid

(***************************************************************************)
(* SpecSelect: SELECT statements through execute_query, with and without   *)
(* a LIMIT clause, under both row limits                                   *)
(***************************************************************************)
ExecuteSelect ==
    ExecuteQueryOn(SelectTexts, {SqliteConnector}, FaultSets(ExecutePoints), Limits)

NextSelect == ExecuteSelect

SpecSelect == Init /\ [][NextSelect]_vars

IsExecuteSelect(r) ==
    r.op = "execute_query" /\ execute_branch_of(r.sql) = "SELECT"

\* the statement ends in a LIMIT clause, as the database parses it
HasLimitClause(sql) == HasLimit(strip_terminator(TokensOf(sql)))

\* C7: a SELECT statement without a LIMIT clause returns at most limit rows
\* from execute_query, whatever identifiers it contains and however many
\* rows the table holds.
C7_SelectBounded ==
    (IsExecuteSelect(last) /\ ~HasLimitClause(last.sql) /\ Succeeded(last))
    => /\ last.result.row_count <= last.limit
       /\ Len(last.result.data) <= last.limit

\* a SELECT without a LIMIT clause to which LIMIT {limit} was appended
C7_Bounded_Witness ==
    /\ IsExecuteSelect(last)
    /\ last.sql = "SELECT * FROM users"
    /\ last.limit = 1
    /\ Succeeded(last)
    /\ RowCount(tables) = 2
    /\ last.result.row_count = 1

(***************************************************************************)
(* SpecBoundary: the five public operations, called with every connector   *)
(* descriptor (live, unknown dialect, lacking its id) and every            *)
(* combination of at most MaxFaults driver failures                        *)
(***************************************************************************)
Malformed == "SELEKT * FROM t"

BoundaryTexts == OtherTexts \cup {"SELECT * FROM users", "DELETE FROM users WHERE id=1"}

ValidateAny == ValidateQueryOn(BoundaryTexts, Connectors, FaultSets(ValidatePoints))

ExecuteAny ==
    ExecuteQueryOn(BoundaryTexts, Connectors, FaultSets(ExecutePoints), {DefaultLimit})

GetSchema == GetSchemaOn(Connectors, FaultSets(ProbePoints))

TestConnection == TestConnectionOn(Connectors, FaultSets(ProbePoints))

GenerateDefaultQueries == GenerateDefaultQueriesOn(Connectors, FaultSets(ProbePoints))

NextBoundary ==
    \/ ValidateAny
    \/ ExecuteAny
    \/ GetSchema
    \/ TestConnection
    \/ GenerateDefaultQueries

SpecBoundary == Init /\ [][NextBoundary]_vars

HasMessage(result) == "message" \in DOMAIN result /\ result.message # ""

ValidateRejected(r) ==
    /\ ~r.raised
    /\ "valid" \in DOMAIN r.result
    /\ r.result.valid = FALSE
    /\ HasMessage(r.result)

ExecuteRejected(r) ==
    /\ ~r.raised
    /\ "success" \in DOMAIN r.result
    /\ r.result.success = FALSE
    /\ HasMessage(r.result)

\* C8: for the malformed statement "SELEKT * FROM t", validate_query returns
\* valid = FALSE and execute_query returns success = FALSE, each with a
\* non-empty message, for every connector and both values of dry_run.
C8_MalformedRejected ==
    /\ (last.op = "validate_query" /\ last.sql = Malformed) => ValidateRejected(last)
    /\ (last.op = "execute_query" /\ last.sql = Malformed) => ExecuteRejected(last)

\* the half of C8 that the code keeps: execute_query rejects the malformed
\* statement, with and without dry_run
C8_ExecuteHalf ==
    (last.op = "execute_query" /\ last.sql = Malformed) => ExecuteRejected(last)

\* the malformed statement went to the database through execute_query and
\* came back as a failure
C8_ExecuteHalf_Witness ==
    /\ last.op = "execute_query"
    /\ last.sql = Malformed
    /\ ~last.dry_run
    /\ Raised("execute") \in {last.events[i] : i \in 1..Len(last.events)}
    /\ ExecuteRejected(last)

\* C9: no public operation lets an exception escape to its caller; each
\* returns a result carrying a success or valid flag, for every connector
\* descriptor and every failure of the driver.
C9_NoExceptionEscapes ==
    last.op # "none"
    => /\ ~last.raised
       /\ {"success", "valid"} \cap DOMAIN last.result # {}

\* the half of C9 that the code keeps: the four operations whose last except
\* clause catches Exception
C9_OthersCatchAll ==
    last.op \in {"validate_query", "execute_query", "test_connection",
                 "generate_default_queries"}
    => /\ ~last.raised
       /\ {"success", "valid"} \cap DOMAIN last.result # {}

\* generate_default_queries caught what escaped get_schema
C9_OthersCatchAll_Witness ==
    /\ last.op = "generate_default_queries"
    /\ last.connector = UnknownDialect
    /\ ~last.raised
    /\ last.result.success = FALSE

(***************************************************************************)
(* SpecClassify: the classification of a statement text by each handler,   *)
(* over texts built from leading whitespace, a first word and a remainder  *)
(***************************************************************************)
Pads == {"", "  ", "\n\t "}

Words == {"select", "SELECT", "Select", "insert", "Insert", "UPDATE", "update",
          "delete", "DeLeTe", "selectx", "SELECTED", "deleted", "SELEKT",
          "create", "with", "sel"}

Remainders == {"", " 1", " * from t  ", "(1)"}

ProbeTexts == {p \o w \o r : p \in Pads, w \in Words, r \in Remainders}

InitClassify ==
    /\ engines = EmptyDict
    /\ tables = [n \in {"users"} |-> EmptyTable]
    /\ last = NoCall
    /\ probe \in {[sql |-> t, validate |-> "", execute |-> ""] : t \in ProbeTexts}

\* validate_query reaches its if / elif / else with the text
ClassifyInValidate ==
    /\ probe.validate = ""
    /\ probe' = [probe EXCEPT !.validate = validate_branch(probe.sql)]
    /\ UNCHANGED <<engines, tables, last>>

\* execute_query reaches its if / elif / else with the same text
ClassifyInExecute ==
    /\ probe.execute = ""
    /\ probe' = [probe EXCEPT !.execute = execute_branch(probe.sql)]
    /\ UNCHANGED <<engines, tables, last>>

NextClassify ==
    \/ ClassifyInValidate
    \/ ClassifyInExecute

SpecClassify == InitClassify /\ [][NextClassify]_vars

WordChars == "abcdefghijklmnopqrstuvwxyzABCDEFGHIJKLMNOPQRSTUVWXYZ0123456789_"

IsWordChar(c) == \E i \in 1..Len(WordChars) : Char(WordChars, i) = c

\* position of the first character of s that is not whitespace, 0 if none
FirstInk(s) ==
    IF \A i \in 1..Len(s) : Char(s, i) \in Whitespace THEN 0
    ELSE Min({i \in 1..Len(s) : Char(s, i) \notin Whitespace})

\* the leading word of s: the longest run of word characters from its first
\* non-blank character on
LeadingWord(s) ==
    IF FirstInk(s) = 0 THEN ""
    ELSE LET a == FirstInk(s)
             ends == {j \in a..Len(s) : ~IsWordChar(Char(s, j))}
         IN SubSeq(s, a, IF ends = {} THEN Len(s) ELSE Min(ends) - 1)

\* two texts equal up to the case of their letters
SameFolded(u, v) ==
    Len(u) = Len(v) /\ \A i \in 1..Len(u) : LowerChar(Char(u, i)) = LowerChar(Char(v, i))

Verbs == {"select", "insert", "update", "delete"}

ClassNames == [v \in Verbs |-> CASE v = "select" -> "SELECT" [] v = "insert" -> "INSERT"
                                 [] v = "update" -> "UPDATE" [] v = "delete" -> "DELETE"]

\* the class of the text whose leading word is the keyword
ClassByWord(s) ==
    IF \E v \in Verbs : SameFolded(LeadingWord(s), v)
    THEN ClassNames[CHOOSE v \in Verbs : SameFolded(LeadingWord(s), v)]
    ELSE "DDL_OR_OTHER"

\* the first six characters of s after its leading whitespace, "" if fewer
LeadingLetters(s) ==
    IF FirstInk(s) = 0 \/ Len(s) < FirstInk(s) + 5 THEN ""
    ELSE SubSeq(s, FirstInk(s), FirstInk(s) + 5)

\* the class of the text whose first letters after the blanks are the keyword
ClassByPrefix(s) ==
    IF \E v \in Verbs : SameFolded(LeadingLetters(s), v)
    THEN ClassNames[CHOOSE v \in Verbs : SameFolded(LeadingLetters(s), v)]
    ELSE "DDL_OR_OTHER"

\* C10 as stated: the class each handler assigns is the one of the leading
\* keyword of the trimmed text, compared without regard to case, and both
\* handlers assign the same class.
C10_Original ==
    /\ probe.validate # "" => probe.validate = ClassByWord(probe.sql)
    /\ probe.execute # "" => probe.execute = ClassByWord(probe.sql)
    /\ (probe.validate # "" /\ probe.execute # "") => probe.validate = probe.execute

\* C10 (amended): the class each handler assigns depends only on whether the
\* text, after its leading whitespace, begins with the letters select, insert,
\* update or delete in any case, whether or not the word ends there; every
\* other text is DDL_OR_OTHER, and both handlers assign the same class.
C10_ClassByLeadingLetters ==
    /\ probe.validate # "" => probe.validate = ClassByPrefix(probe.sql)
    /\ probe.execute # "" => probe.execute = ClassByPrefix(probe.sql)
    /\ (probe.validate # "" /\ probe.execute # "") => probe.validate = probe.execute

\* a padded, mixed-case SELECT classified by both handlers
C10_Witness ==
    /\ probe.sql = "  Select 1"
    /\ probe.validate = "SELECT"
    /\ probe.execute = "SELECT"

(***************************************************************************)
(* SpecDDL: statements of the DDL/other class through execute_query, dry   *)
(* and real, and the schema read back                                      *)
(***************************************************************************)
ExecuteDDL ==
    ExecuteQueryOn(OtherTexts, {SqliteConnector}, FaultSets(DDLPoints), {DefaultLimit})

ReadSchema == GetSchemaOn({SqliteConnector}, {{}})

NextDDL ==
    \/ ExecuteDDL
    \/ ReadSchema

SpecDDL == Init /\ [][NextDDL]_vars

\* the call reached the branches of execute_query with a DDL/other statement
IsExecuteDDL(r) ==
    /\ r.op = "execute_query"
    /\ execute_branch_of(r.sql) = "DDL_OR_OTHER"
    /\ Calls(r.events, "connect") # {}
    /\ ~r.events[1].raised

\* C11: once connected, execute_query of a DDL/other statement with
\* dry_run = TRUE returns success = FALSE with the message that DDL cannot be
\* dry-run, sends nothing to the database and leaves the tables as they were;
\* with dry_run = FALSE the statement is sent, and a call that succeeds has
\* committed after executing, so that the tables are what the statement made.
C11_DDLDryRunRefused ==
    [][IsExecuteDDL(last')
       => /\ last'.dry_run
             => /\ last'.result.success = FALSE
                /\ last'.result.message = "Dry-run mode is not supported for DDL queries"
                /\ Calls(last'.events, "execute") = {}
                /\ Calls(last'.events, "commit") = {}
                /\ tables' = tables
          /\ ~last'.dry_run
             => /\ Calls(last'.events, "execute") # {}
                /\ Succeeded(last')
                   => /\ Calls(last'.events, "commit") # {}
                      /\ Min(Calls(last'.events, "execute"))
                           < Min(Calls(last'.events, "commit"))
                      /\ last'.tx = "committed"
                      /\ tables' = db_execute(last'.sql, tables).tabs]_vars

\* CREATE TABLE was refused as a dry run on a database that lacks the table,
\* which still lacks it
C11_Witness ==
    /\ IsExecuteDDL(last)
    /\ last.sql = "CREATE TABLE audit"
    /\ last.dry_run
    /\ last.result.success = FALSE
    /\ "audit" \notin DOMAIN tables

\* CREATE TABLE ran for real and the table is there
C11_Committed ==
    /\ IsExecuteDDL(last)
    /\ ~last.dry_run
    /\ Succeeded(last)
    /\ "audit" \in DOMAIN tables

(***************************************************************************)
(* SpecValidate: validate_query over statements of every class, with every *)
(* connector descriptor and every combination of driver failures           *)
(***************************************************************************)
ValidateEvery == ValidateQueryOn(SqlTexts, Connectors, FaultSets(ValidatePoints))

NextValidate == ValidateEvery

SpecValidate == Init /\ [][NextValidate]_vars

\* the query_type a result names a class by
ClassLabel(class) == IF class = "DDL_OR_OTHER" THEN "DDL/Other" ELSE class

HasQueryType(result, class) ==
    "query_type" \in DOMAIN result /\ result.query_type = ClassLabel(class)

\* C12 as stated: every result of validate_query, valid or not, carries the
\* query_type of the class of the submitted text.
C12_Original ==
    last.op = "validate_query" => HasQueryType(last.result, ClassByPrefix(last.sql))

\* C12 (amended): a result of validate_query with valid = TRUE carries the
\* query_type of the class of the submitted text (SELECT, INSERT, UPDATE,
\* DELETE, and DDL/Other for the class DDL_OR_OTHER); a result with
\* valid = FALSE carries no query_type, its keys are valid, message and error.
C12_QueryTypeOnValid ==
    last.op = "validate_query"
    => /\ last.result.valid => HasQueryType(last.result, ClassByPrefix(last.sql))
       /\ ~last.result.valid => DOMAIN last.result = {"valid", "message", "error"}

\* a SELECT that the database refused: the result names no query_type
C12_Witness ==
    /\ last.op = "validate_query"
    /\ last.sql = "SELECT * FROM nonexistent_table"
    /\ last.connector = SqliteConnector
    /\ Calls(last.events, "execute") # {}
    /\ ~last.result.valid
    /\ "query_type" \notin DOMAIN last.result

\* a statement of each class found valid and labelled
C12_Labelled ==
    /\ last.op = "validate_query"
    /\ last.result.valid
    /\ last.result.query_type = "UPDATE"

(***************************************************************************)
(* SpecErrors: the except clauses of the two handlers applied to errors    *)
(* the driver raises, with one-line and multi-line texts                   *)
(***************************************************************************)
DriverTexts ==
    {"no such table: t",
     "near \"SELEKT\": syntax error",
     "database is locked",
     "relation \"t\" does not exist\nLINE 1: SELECT * FROM t\n                      ^",
     "server closed the connection unexpectedly\n\tThis probably means the server terminated abnormally",
     "syntax error at or near \"SELEKT\"\nLINE 1: SELEKT * FROM t",
     "\nleading newline",
     "trailing newline\n"}

DriverErrors == {DBAPIError(t, q) : t \in DriverTexts, q \in SelectTexts}

InitErrors ==
    /\ engines = EmptyDict
    /\ tables = [n \in {"users"} |-> EmptyTable]
    /\ last = NoCall
    /\ probe \in {[exc |-> e, validate |-> NoResult, execute |-> NoResult] :
                    e \in DriverErrors}

\* validate_query catches the error: lines 134-145
CatchInValidate ==
    /\ probe.validate = NoResult
    /\ probe' = [probe EXCEPT !.validate = validate_failure(probe.exc)]
    /\ UNCHANGED <<engines, tables, last>>

\* execute_query catches the same error: lines 266-277
CatchInExecute ==
    /\ probe.execute = NoResult
    /\ probe' = [probe EXCEPT !.execute = execute_failure(probe.exc)]
    /\ UNCHANGED <<engines, tables, last>>

NextErrors ==
    \/ CatchInValidate
    \/ CatchInExecute

SpecErrors == InitErrors /\ [][NextErrors]_vars

\* m is the first line of text: it holds no newline and text is m, or m
\* followed by a newline and more
IsFirstLineOf(m, text) ==
    /\ ~contains(m, "\n")
    /\ \/ text = m
       \/ startswith(text, m \o "\n")

\* the text of the result ends with the first line of the driver's text and
\* holds none of its later lines
FromFirstLine(message, text) ==
    /\ ~contains(message, "\n")
    /\ \E i \in 1..(Len(message) + 1) :
          IsFirstLineOf(SubSeq(message, i, Len(message)), text)

\* the field holds the whole of the driver's text, be it alone or inside the
\* text of the exception that wraps it
KeepsDetail(error, e) == error \in {e.orig, e.str}

\* C13: when the driver raises, validate_query and execute_query each return
\* a result whose message comes from the first line of the driver's text
\* alone and whose error field holds the whole text.
C13_FirstLineAndFullDetail ==
    /\ probe.validate # NoResult
       => /\ FromFirstLine(probe.validate.message, probe.exc.orig)
          /\ KeepsDetail(probe.validate.error, probe.exc)
    /\ probe.execute # NoResult
       => /\ FromFirstLine(probe.execute.message, probe.exc.orig)
          /\ KeepsDetail(probe.execute.error, probe.exc)

\* the half of C13 that the code keeps: both messages, and the error field of
\* validate_query
C13_Kept ==
    /\ probe.validate # NoResult
       => /\ FromFirstLine(probe.validate.message, probe.exc.orig)
          /\ probe.validate.error = probe.exc.str
    /\ probe.execute # NoResult
       => FromFirstLine(probe.execute.message, probe.exc.orig)

\* a multi-line error of the driver went through both except clauses
C13_Kept_Witness ==
    /\ contains(probe.exc.orig, "\nLINE 1")
    /\ probe.validate # NoResult
    /\ probe.execute # NoResult
    /\ probe.validate.error = probe.exc.str
    /\ probe.execute.error # probe.exc.str

(***************************************************************************)
(* SpecEngines: get_connection_string and get_engine over descriptors that *)
(* have or lack each key, on the cache as earlier acquires left it         *)
(***************************************************************************)
Absent == "<absent>"

with_key(d, key, val) == IF val = Absent THEN d ELSE dict_set(d, key, val)

Descriptor(id, db_type, database, connection_string) ==
    with_key(with_key(with_key(with_key(EmptyDict, "id", id), "db_type", db_type),
                      "database", database),
             "connection_string", connection_string)

Descriptors ==
    {Descriptor(id, t, db, cs) :
        id \in {Absent, "c1", "c2"},
        t \in {Absent, "sqlite", "postgresql", "oracle"},
        db \in {Absent, "test.db"},
        cs \in {Absent, None, "", "sqlite:///override.db", "postgresql://u@h/db"}}

\* get_connection_string(connector), called on its own
BuildReturned(connector, cs) ==
    Return("get_connection_string", "", connector, 0, FALSE,
           Outcome(IF cs.exc.kind # "none" THEN Escaped(cs.exc)
                   ELSE [value |-> cs.value],
                   cs.exc.kind # "none", engines, tables, <<>>, FALSE, "none"))

BuildConnectionString ==
    \E c \in Descriptors : BuildReturned(c, get_connection_string(c))

\* get_engine(connector['id'], connector)
AcquireReturned(connector, ge) ==
    Return("get_engine", "", connector, 0, FALSE,
           Outcome(IF ge.exc.kind # "none" THEN Escaped(ge.exc)
                   ELSE [engine |-> ge.engine],
                   ge.exc.kind # "none", ge.engines, tables, <<>>, FALSE, "none"))

Acquire == \E c \in Descriptors : AcquireReturned(c, get_engine(c, engines))

NextEngines ==
    \/ BuildConnectionString
    \/ Acquire

InitEngines ==
    /\ engines = EmptyDict
    /\ tables = [n \in {"users"} |-> EmptyTable]
    /\ last = NoCall
    /\ probe = NoProbe

SpecEngines == InitEngines /\ [][NextEngines]_vars

IsAcquire(r) == r.op = "get_engine" /\ "id" \in DOMAIN r.connector

\* C14: an acquire that misses the cache builds the connection string,
\* constructs a handle from it, stores it under the id and returns it; one
\* that hits returns the stored handle and leaves the cache as it was, so a
\* second acquire of an id returns the handle of the first.
C14_CacheHitReturnsStored ==
    [][(IsAcquire(last') /\ ~last'.raised)
       => /\ last'.result.engine = engines'[last'.connector.id]
          /\ last'.connector.id \in DOMAIN engines
             => /\ engines' = engines
                /\ last'.result.engine = engines[last'.connector.id]
          /\ last'.connector.id \notin DOMAIN engines
             => /\ DOMAIN engines' = DOMAIN engines \cup {last'.connector.id}
                /\ \A i \in DOMAIN engines : engines'[i] = engines[i]
                /\ last'.result.engine \in
                     {"sqlite:///override.db", "postgresql://u@h/db",
                      "sqlite:///test.db"}
                /\ Truthy(dict_get(last'.connector, "connection_string"))
                   => last'.result.engine = last'.connector.connection_string]_vars

\* an id was acquired again with another descriptor and the handle of the
\* first acquire came back
C14_Witness ==
    /\ IsAcquire(last)
    /\ ~last.raised
    /\ last.connector.id = "c1"
    /\ dict_get(last.connector, "connection_string") = "postgresql://u@h/db"
    /\ engines["c1"] = "sqlite:///test.db"
    /\ last.result.engine = "sqlite:///test.db"

HasOverride(connector) ==
    /\ "connection_string" \in DOMAIN connector
    /\ connector.connection_string \notin {None, ""}

\* C15: for a descriptor whose connection_string is set, get_connection_string
\* returns that string as it is, whatever db_type and the other fields are or
\* lack, and raises nothing.
C15_OverrideVerbatim ==
    (last.op = "get_connection_string" /\ HasOverride(last.connector))
    => /\ ~last.raised
       /\ last.result = [value |-> last.connector.connection_string]

\* the override of a descriptor of an unknown dialect, lacking its database
C15_Witness ==
    /\ last.op = "get_connection_string"
    /\ dict_get(last.connector, "db_type") = "oracle"
    /\ "database" \notin DOMAIN last.connector
    /\ ~last.raised
    /\ last.result.value = "postgresql://u@h/db"

UnknownDialectOf(connector) ==
    /\ ~HasOverride(connector)
    /\ "db_type" \in DOMAIN connector
    /\ connector.db_type \notin {"sqlite", "postgresql", "mysql"}

IsTestConnection(r) == r.op = "test_connection"

ProbeSucceeded(r) ==
    /\ "id" \in DOMAIN r.connector
    /\ r.events = <<Ok("connect"), Ok("execute"), Ok("close")>>

\* C17: test_connection returns success = TRUE only when a handle was
\* acquired, a connection opened and the probe statement executed, none of
\* them raising; when any of them raises it returns success = FALSE with a
\* message that begins with "Connection failed: ".
C17_SuccessOnlyAfterProbe ==
    IsTestConnection(last)
    => /\ ~last.raised
       /\ last.result.success <=> ProbeSucceeded(last)
       /\ last.result.success => last.connector.id \in DOMAIN engines
       /\ ~last.result.success
          => /\ startswith(last.result.message, "Connection failed: ")
             /\ Len(last.result.message) > Len("Connection failed: ")
             /\ \/ last.events = <<>>
                \/ RaisedAt(last) # {}

\* the probe ran on a live database and the call reported success
C17_Witness ==
    /\ IsTestConnection(last)
    /\ last.connector = SqliteConnector
    /\ ProbeSucceeded(last)
    /\ last.result = [success |-> TRUE, message |-> "Connection successful"]

\* the probe raised and the call reported the failure
C17_ProbeFailed ==
    /\ IsTestConnection(last)
    /\ Raised("execute") \in {last.events[i] : i \in 1..Len(last.events)}
    /\ ~last.result.success

(***************************************************************************)
(* Calls in flight at the same time.  A call is followed through the lines *)
(* of its handler: the handle and the connection (62-64, 172-174), the     *)
(* statement (74, 99, 183, 210), the end of the transaction (101, 118,     *)
(* 223, 234, 243) and the end of the with block.  probe holds the calls in *)
(* flight and the connections of the handle's pool; tables is what the     *)
(* database has committed.  probe.seen and probe.ended describe the step   *)
(* just taken: what a SELECT read, whose statements a transaction's end    *)
(* ended.                                                                  *)
(***************************************************************************)
Callers == {1, 2}

ConnIds == {1, 2}

PostgresConnector ==
    [id |-> "c3", db_type |-> "postgresql", username |-> "app",
     password |-> "secret", host |-> "db", port |-> "5432", database |-> "shop",
     connection_string |-> None]

ConcurrentTexts ==
    {"SELECT * FROM users", "INSERT INTO users VALUES (1)",
     "DELETE FROM users WHERE id=1"}

\* a connection of the pool: the calls that hold it, whether a write
\* transaction is open on it, the rows that transaction wrote ("=" where it
\* wrote nothing) and the calls whose statements it carries
Untouched == [k \in Keys |-> "="]

IdleConn == [holders |-> {}, writing |-> FALSE, delta |-> Untouched, stmts |-> {}]

IdleCall ==
    [pc |-> "idle", op |-> "none", sql |-> "", dry_run |-> FALSE, conn |-> 0,
     result |-> NoResult]

NothingEnded == [by |-> 0, how |-> "none", owners |-> {}]

NothingSeen == [by |-> 0, text |-> "", rows |-> <<>>, committed |-> <<>>]

\* mutant of pool_checkout: one connection shared by every call
pool_checkout_shared(conns) == 1

\* QueuePool: a connection nobody has checked out
pool_checkout(conns) == Min({i \in ConnIds : conns[i].holders = {}})

Overlay(delta, tabs) ==
    [tabs EXCEPT !["users"] = [k \in Keys |-> IF delta[k] = "=" THEN @[k] ELSE delta[k]]]

RECURSIVE OverlayAll(_, _, _)
OverlayAll(ids, conns, tabs) ==
    IF ids = {} THEN tabs
    ELSE LET i == Min(ids) IN
         OverlayAll(ids \ {i}, conns, Overlay(conns[i].delta, tabs))

\* mutant of conn_view: a connection reads what any transaction has written
conn_view_dirty(id, conns, tabs) == OverlayAll(ConnIds, conns, tabs)

\* what a connection reads: the committed rows and its own transaction's
conn_view(id, conns, tabs) == Overlay(conns[id].delta, tabs)

\* the rows a statement would write: the key of an INSERT, the visible rows
\* an UPDATE or DELETE matches
Touched(k, tb) ==
    IF Len(k) = 0 THEN {}
    ELSE IF k[1] = "insert"
    THEN {NumVal(k[i]) : i \in {j \in 1..Len(k) : IsNum(k[j])}} \cap Keys
    ELSE Matched(tb, k)

\* sqlite has one writer per database; the servers lock the rows written
DatabaseLock(engine) == startswith(engine, "sqlite")

OthersWriting(id, conns) == {j \in ConnIds \ {id} : conns[j].writing}

RowsHeld(id, conns) ==
    {k \in Keys : \E j \in ConnIds \ {id} : conns[j].delta[k] # "="}

\* the statement cannot proceed while another transaction holds its lock
Blocked(engine, id, conns, sql, view) ==
    IF DatabaseLock(engine) THEN OthersWriting(id, conns) # {}
    ELSE Touched(strip_terminator(TokensOf(sql)), view["users"])
         \cap RowsHeld(id, conns) # {}

Wrote(delta, before, after) ==
    [k \in Keys |-> IF after["users"][k] # before["users"][k]
                    THEN after["users"][k] ELSE delta[k]]

InFlight(c) == probe.call[c]

BranchOf(st) ==
    IF st.op = "validate_query" THEN validate_branch_of(st.sql)
    ELSE execute_branch_of(st.sql)

\* lines 62-64 and 172-174: the handle of the connector, a connection of
\* its pool
EnterWith(c, op, sql, dry_run, ge, id) ==
    /\ engines' = ge.engines
    /\ probe' = [probe EXCEPT
                    !.call[c] = [pc |-> "connected", op |-> op, sql |-> sql,
                                 dry_run |-> dry_run, conn |-> id,
                                 result |-> NoResult],
                    !.conns[id].holders = @ \cup {c},
                    !.ended = NothingEnded, !.seen = NothingSeen]
    /\ UNCHANGED <<tables, last>>

Enter(c) ==
    /\ InFlight(c).pc = "idle"
    /\ \E op \in {"validate_query", "execute_query"}, sql \in ConcurrentTexts,
          dry_run \in BOOLEAN :
          /\ op = "validate_query" => ~dry_run
          /\ EnterWith(c, op, sql, dry_run, get_engine(probe.connector, engines),
                       pool_checkout(probe.conns))

SelectText(st) ==
    IF st.op = "validate_query" THEN validate_wrapped_text_of(st.sql)
    ELSE execute_select_text_of(st.sql, DefaultLimit)

SelectResult(st, ex, ge) ==
    IF st.op = "validate_query"
    THEN validate_select_returned(ex, ex, ge, tables).result
    ELSE execute_select_returned(ex, ge, tables).result

\* lines 74 and 183: the SELECT statement reads through the connection
SelectRead(c, st, text, ex) ==
    /\ probe' = [probe EXCEPT
                    !.call[c].pc = "closing",
                    !.call[c].result = SelectResult(st, ex, [engines |-> engines]),
                    !.ended = NothingEnded,
                    !.seen = [by |-> c, text |-> text, rows |-> ex.db.rows,
                              committed |-> tables["users"]]]
    /\ UNCHANGED <<engines, tables, last>>

DMLValid(st, ex) ==
    IF st.op = "validate_query"
    THEN validate_dml_try(ex, validate_dml_finish, BranchOf(st), {}).result
    ELSE execute_dml_result(BranchOf(st), ex.db.rowcount, st.dry_run)

DMLFailure(st, e) ==
    IF st.op = "validate_query" THEN validate_failure(e) ELSE execute_failure(e)

\* lines 96-99 and 207-211: begin, then the statement on the connection
DMLWrite(c, st, view, ex) ==
    /\ probe' = [probe EXCEPT
                    !.call[c].pc = IF ex.exc.kind = "none" THEN "executed" ELSE "failed",
                    !.call[c].result = IF ex.exc.kind = "none" THEN DMLValid(st, ex)
                                       ELSE DMLFailure(st, ex.exc),
                    !.conns[st.conn].writing = TRUE,
                    !.conns[st.conn].delta =
                        IF ex.exc.kind = "none" THEN Wrote(@, view, ex.db.tabs) ELSE @,
                    !.conns[st.conn].stmts =
                        IF ex.exc.kind = "none" THEN @ \cup {c} ELSE @,
                    !.ended = NothingEnded, !.seen = NothingSeen]
    /\ UNCHANGED <<engines, tables, last>>

\* the busy timeout of sqlite ran out while another connection was writing
DMLLocked(c, st) ==
    /\ probe' = [probe EXCEPT
                    !.call[c].pc = "failed",
                    !.call[c].result =
                        DMLFailure(st, DBAPIError("database is locked", st.sql)),
                    !.ended = NothingEnded, !.seen = NothingSeen]
    /\ UNCHANGED <<engines, tables, last>>

StatementOn(c, st, view) ==
    IF BranchOf(st) = "SELECT"
    THEN SelectRead(c, st, SelectText(st), conn_execute(SelectText(st), view, FALSE))
    ELSE IF Blocked(engines[probe.connector.id], st.conn, probe.conns, st.sql, view)
    THEN DatabaseLock(engines[probe.connector.id]) /\ DMLLocked(c, st)
    ELSE DMLWrite(c, st, view, conn_execute(st.sql, view, FALSE))

Statement(c) ==
    /\ InFlight(c).pc = "connected"
    /\ StatementOn(c, InFlight(c), conn_view(InFlight(c).conn, probe.conns, tables))

\* validate rolls back; execute rolls back a dry run and commits otherwise;
\* the except handlers roll back
FinishOf(st) ==
    IF st.pc = "failed" \/ st.op = "validate_query" THEN "rollback"
    ELSE execute_dml_finish(st.dry_run)

\* lines 101, 118, 223, 234 and 243: the transaction of the connection ends
FinishWith(c, st, how) ==
    /\ tables' = IF how = "commit" THEN Overlay(probe.conns[st.conn].delta, tables)
                 ELSE tables
    /\ probe' = [probe EXCEPT
                    !.call[c].pc = "closing",
                    !.conns[st.conn].writing = FALSE,
                    !.conns[st.conn].delta = Untouched,
                    !.conns[st.conn].stmts = {},
                    !.ended = [by |-> c, how |-> how,
                               owners |-> probe.conns[st.conn].stmts],
                    !.seen = NothingSeen]
    /\ UNCHANGED <<engines, last>>

Finish(c) ==
    /\ InFlight(c).pc \in {"executed", "failed"}
    /\ FinishWith(c, InFlight(c), FinishOf(InFlight(c)))

\* the with block ends: the connection goes back to the pool, which rolls
\* back whatever is still open on it; the call returns its dict
LeaveWith(c, st) ==
    /\ probe' = [probe EXCEPT
                    !.call[c] = IdleCall,
                    !.conns[st.conn] = [IdleConn EXCEPT !.holders =
                                           probe.conns[st.conn].holders \ {c}],
                    !.ended = IF probe.conns[st.conn].stmts = {} THEN NothingEnded
                              ELSE [by |-> c, how |-> "reset",
                                    owners |-> probe.conns[st.conn].stmts],
                    !.seen = NothingSeen]
    /\ last' = CallRecord(st.op, st.sql, probe.connector, DefaultLimit, st.dry_run,
                          Outcome(st.result, FALSE, engines, tables, <<>>, FALSE,
                                  "none"))
    /\ UNCHANGED <<engines, tables>>

Leave(c) ==
    /\ InFlight(c).pc = "closing"
    /\ LeaveWith(c, InFlight(c))

NextConcurrent ==
    \/ \E c \in Callers : Enter(c)
    \/ \E c \in Callers : Statement(c)
    \/ \E c \in Callers : Finish(c)
    \/ \E c \in Callers : Leave(c)

InitConcurrent ==
    /\ engines = EmptyDict
    /\ tables \in {[n \in {"users"} |-> [k \in Keys |-> IF k = 1 THEN v ELSE "0"]] :
                   v \in {"-", "0"}}
    /\ last = NoCall
    /\ probe \in {[connector |-> co, call |-> [c \in Callers |-> IdleCall],
                   conns |-> [i \in ConnIds |-> IdleConn],
                   ended |-> NothingEnded, seen |-> NothingSeen] :
                  co \in {SqliteConnector, PostgresConnector}}

SpecConcurrent == InitConcurrent /\ [][NextConcurrent]_vars

Holding(c) == InFlight(c).pc # "idle"

Pending(c) ==
    /\ InFlight(c).pc = "executed"
    /\ c \in probe.conns[InFlight(c).conn].stmts

\* C18: two calls in flight at the same time hold different connections, and
\* a commit, a rollback or the return of a connection to the pool ends only
\* statements that the call making it executed itself.
C18_OwnConnection ==
    /\ \A c, d \in Callers :
          c # d /\ Holding(c) /\ Holding(d) => InFlight(c).conn # InFlight(d).conn
    /\ probe.ended.owners \subseteq {probe.ended.by}
    /\ \A c \in Callers : Holding(c) =>
          probe.conns[InFlight(c).conn].stmts \subseteq {c}

\* one call has committed its own statement while the statement of the
\* other is still waiting for its rollback or commit
C18_Witness ==
    \E c, d \in Callers :
        /\ c # d
        /\ Pending(c)
        /\ InFlight(d).pc = "closing"
        /\ probe.ended = [by |-> d, how |-> "commit", owners |-> {d}]

\* C19: a SELECT reads exactly the rows the database has committed, whatever
\* other calls have written and not yet committed, and the committed rows
\* change only when an execute_query call that is not a dry run commits.
C19_NoDirtyRead ==
    /\ [](probe.seen.by # 0 =>
            probe.seen.rows =
                db_execute(probe.seen.text, [n \in {"users"} |-> probe.seen.committed]).rows)
    /\ [][tables' # tables =>
            \E c \in Callers :
                /\ InFlight(c).op = "execute_query" /\ ~InFlight(c).dry_run
                /\ InFlight(c).pc = "executed" /\ InFlight(c)'.pc = "closing"]_vars

\* a SELECT has just read while the other call's statement was uncommitted
C19_Witness ==
    \E c, d \in Callers :
        /\ c # d
        /\ Pending(c)
        /\ probe.conns[InFlight(c).conn].delta # Untouched
        /\ InFlight(d).pc = "closing"
        /\ InFlight(d).op = "execute_query"
        /\ probe.seen.by = d
        /\ probe.seen.rows = TableRows(tables["users"])

(***************************************************************************)
(* SpecQueries: default queries suggested for a schema of one or two       *)
(* tables, the second created through execute_query                        *)
(***************************************************************************)
SuggestQueries == GenerateDefaultQueriesOn(Connectors, FaultSets(ProbePoints))

NextQueries ==
    \/ ExecuteDDL
    \/ ReadSchema
    \/ SuggestQueries

SpecQueries == Init /\ [][NextQueries]_vars

IsSuggestion(r) ==
    /\ r.op = "generate_default_queries"
    /\ ~r.raised
    /\ r.result.success

\* what get_schema reports for the connector of the last call
SchemaOf(r) == get_schema(r.connector, {}, engines, tables).result

SuggestsFor(q, t) ==
    /\ q.table_name = t.name
    /\ q.sql_query = "SELECT * FROM " \o t.name
    /\ q.query_type = "SELECT"

\* C20: a successful generate_default_queries returns one entry per table of
\* the schema get_schema reports, in the same order, each with sql_query
\* "SELECT * FROM <table>" and query_type SELECT, and query_count equals the
\* schema's table_count.
C20_OnePerTableInOrder ==
    IsSuggestion(last)
    => /\ SchemaOf(last).success
       /\ last.result.query_count = SchemaOf(last).table_count
       /\ Len(last.result.queries) = Len(SchemaOf(last).tables)
       /\ \A i \in 1..Len(last.result.queries) :
             SuggestsFor(last.result.queries[i], SchemaOf(last).tables[i])

\* suggestions for a schema of two tables
C20_Witness ==
    /\ IsSuggestion(last)
    /\ last.result.query_count = 2
    /\ last.result.queries[1].sql_query = "SELECT * FROM audit"
    /\ last.result.queries[2].sql_query = "SELECT * FROM users"

(***************************************************************************)
(* SpecFallback: SELECT statements through validate_query on a sqlite and  *)
(* on a postgresql handle; the wrapped attempt fails for a statement that  *)
(* ends in a comment, or because the driver rejects it                     *)
(***************************************************************************)
FallbackTexts ==
    {"SELECT * FROM users", "SELECT * FROM users -- all",
     "SELECT * FROM users LIMIT 1 -- first", "SELECT * FROM nonexistent_table -- none"}

ValidateSelect ==
    ValidateQueryOn(FallbackTexts, {SqliteConnector, PostgresConnector},
                    FaultSets({"execute"}))

NextFallback == ValidateSelect

SpecFallback == Init /\ [][NextFallback]_vars

IsValidateSelect(r) ==
    /\ r.op = "validate_query"
    /\ validate_branch_of(r.sql) = "SELECT"
    /\ Len(r.events) >= 2

\* the wrapped attempt raised and the fallback attempt was made
FirstFailed(r) ==
    /\ IsValidateSelect(r)
    /\ r.events[2] = Raised("execute")

FallbackAcceptable(r) == db_execute(validate_fallback_text(r.sql), tables).ok

\* C21: when the wrapped attempt of a SELECT validation fails, validate_query
\* returns valid = TRUE if the database accepts the statement with its LIMIT
\* removed and LIMIT 0 appended, and valid = FALSE only if it does not.
C21_FallbackRescues ==
    FirstFailed(last) => (last.result.valid <=> FallbackAcceptable(last))

\* on postgresql the fallback statement is acceptable and still refused
C21_Refused_Witness ==
    /\ FirstFailed(last)
    /\ last.connector = PostgresConnector
    /\ last.sql = "SELECT * FROM users -- all"
    /\ FallbackAcceptable(last)
    /\ ~last.result.valid
    /\ last.result.message = InFailedSqlTransaction

\* where the transaction survives an error the fallback decides
C21_RescuedWhereTolerated ==
    FirstFailed(last) /\ ~AbortsOnError(engines[last.connector.id])
    => (last.result.valid <=> FallbackAcceptable(last))

\* C29: the fallback attempt of a SELECT validation is made on the connection
\* of the wrapped attempt, in the transaction that attempt began, with no
\* rollback, begin or second connect in between; on a dialect that aborts a
\* transaction at its first error the fallback attempt is therefore refused.
C29_SameTransaction ==
    FirstFailed(last)
    => /\ Len(last.events) = 4
       /\ last.events[1] = Ok("connect")
       /\ last.events[3].call = "execute"
       /\ last.events[4] = Ok("close")
       /\ AbortsOnError(engines[last.connector.id])
          => /\ last.events[3].raised
             /\ ~last.result.valid
             /\ last.result.message = InFailedSqlTransaction

\* both attempts were made on a postgresql connection
C29_Witness ==
    /\ FirstFailed(last)
    /\ AbortsOnError(engines[last.connector.id])
    /\ last.events = <<Ok("connect"), Raised("execute"), Raised("execute"), Ok("close")>>

\* on sqlite the fallback attempt succeeded in the transaction that had failed
C29_Continued ==
    /\ FirstFailed(last)
    /\ ~AbortsOnError(engines[last.connector.id])
    /\ last.events = <<Ok("connect"), Raised("execute"), Ok("execute"), Ok("close")>>
    /\ last.result.valid

(***************************************************************************)
(* SpecCache: the five public operations with descriptors that share an id *)
(* and differ in their database, on the cache as earlier calls left it     *)
(***************************************************************************)
MovedConnector == [SqliteConnector EXCEPT !.database = "moved.db"]

CacheConnectors ==
    {SqliteConnector, MovedConnector, UnknownDialect, NoIdConnector, PostgresConnector}

CacheTexts == {"SELECT * FROM users", "INSERT INTO users VALUES (1)"}

ValidateCached == ValidateQueryOn(CacheTexts, CacheConnectors, {{}})

ExecuteCached == ExecuteQueryOn(CacheTexts, CacheConnectors, {{}}, {DefaultLimit})

GetSchemaCached == GetSchemaOn(CacheConnectors, FaultSets({"connect"}))

TestConnectionCached == TestConnectionOn(CacheConnectors, FaultSets({"connect"}))

GenerateCached == GenerateDefaultQueriesOn(CacheConnectors, FaultSets({"connect"}))

NextCache ==
    \/ ValidateCached
    \/ ExecuteCached
    \/ GetSchemaCached
    \/ TestConnectionCached
    \/ GenerateCached

SpecCache == Init /\ [][NextCache]_vars

\* C23: no public operation removes an id from the engine cache or replaces
\* the handle stored under an id: the cache only gains entries.
C23_CacheOnlyGrows ==
    [][/\ DOMAIN engines \subseteq DOMAIN engines'
       /\ \A id \in DOMAIN engines : engines'[id] = engines[id]]_vars

\* two ids are cached, and the last call, made with the descriptor of the
\* moved database, left the handle of the first descriptor in place
C23_Witness ==
    /\ DOMAIN engines = {"c1", "c3"}
    /\ last.connector = MovedConnector
    /\ engines["c1"] = "sqlite:///test.db"

\* C28: an acquire of an id that is in the cache returns the stored handle and
\* leaves the cache as it was whatever the descriptor passed with it: one
\* that would build another connection string or raise on its own is ignored.
C28_KeyedByIdAlone ==
    [][(IsAcquire(last') /\ last'.connector.id \in DOMAIN engines)
       => /\ ~last'.raised
          /\ last'.result = [engine |-> engines[last'.connector.id]]
          /\ engines' = engines]_vars

\* the handle built from a sqlite descriptor came back for a descriptor of an
\* unsupported dialect under the same id
C28_Witness ==
    /\ IsAcquire(last)
    /\ UnknownDialectOf(last.connector)
    /\ ~last.raised
    /\ last.result.engine = "sqlite:///test.db"
    /\ engines[last.connector.id] = "sqlite:///test.db"

(***************************************************************************)
(* SpecRace: get_engine called by two threads at once, followed line by    *)
(* line: the membership test (46), the construction (47-52), the store     *)
(* (48) and the read that is returned (53).  A handle is the URL it was    *)
(* built from, the id it was built for and the order of its construction;  *)
(* probe holds the calls in flight, the handles built and, per id, the     *)
(* handle stored last.                                                     *)
(***************************************************************************)
RaceConnectors == {SqliteConnector, MovedConnector, PostgresConnector, UnknownDialect}

Handle(url, id, n) == [url |-> url, id |-> id, n |-> n]

NoHandle == Handle("", "", 0)

IdleAcquire == [pc |-> "idle", connector |-> SqliteConnector, built |-> NoHandle]

Acquiring(c) == probe.acquire[c]

\* mutant of cache_store: a handle already stored under the id is kept
cache_store_first(eng, id, h) == IF id \in DOMAIN eng THEN eng ELSE dict_set(eng, id, h)

\* line 48: self._engines[connector_id] = ...
cache_store(eng, id, h) == dict_set(eng, id, h)

\* a thread calls get_engine(connector['id'], connector)
CallAcquire(c) ==
    /\ Acquiring(c).pc = "idle"
    /\ probe.started < MaxCalls
    /\ \E co \in RaceConnectors :
          probe' = [probe EXCEPT !.acquire[c] = [IdleAcquire EXCEPT !.pc = "check",
                                                                    !.connector = co],
                                 !.started = @ + 1]
    /\ UNCHANGED <<engines, tables, last>>

\* line 46: if connector_id not in self._engines
CheckCache(c) ==
    /\ Acquiring(c).pc = "check"
    /\ probe' = [probe EXCEPT !.acquire[c].pc =
                    IF Acquiring(c).connector.id \in DOMAIN engines THEN "return"
                    ELSE "build"]
    /\ UNCHANGED <<engines, tables, last>>

AcquireRaised(c, co, e) ==
    /\ probe' = [probe EXCEPT !.acquire[c] = IdleAcquire]
    /\ last' = CallRecord("get_engine", "", co, 0, FALSE,
                          Outcome(Escaped(e), TRUE, engines, tables, <<>>, FALSE, "none"))
    /\ UNCHANGED <<engines, tables>>

Constructed(c, co, ce) ==
    IF ce.exc.kind # "none" THEN AcquireRaised(c, co, ce.exc)
    ELSE /\ probe' = [probe EXCEPT
                         !.acquire[c].pc = "store",
                         !.acquire[c].built =
                             Handle(ce.engine, co.id, Cardinality(probe.built) + 1),
                         !.built = @ \cup {Handle(ce.engine, co.id,
                                                  Cardinality(probe.built) + 1)}]
         /\ UNCHANGED <<engines, tables, last>>

BuildWith(c, co, cs) ==
    IF cs.exc.kind # "none" THEN AcquireRaised(c, co, cs.exc)
    ELSE Constructed(c, co, create_engine(cs.value))

\* lines 47-52: the connection string and create_engine(...)
BuildHandle(c) ==
    /\ Acquiring(c).pc = "build"
    /\ BuildWith(c, Acquiring(c).connector,
                 get_connection_string(Acquiring(c).connector))

\* line 48: the handle is stored under the id
StoreHandle(c) ==
    /\ Acquiring(c).pc = "store"
    /\ engines' = cache_store(engines, Acquiring(c).connector.id, Acquiring(c).built)
    /\ probe' = [probe EXCEPT
                    !.acquire[c].pc = "return",
                    !.written = dict_set(@, Acquiring(c).connector.id,
                                         Acquiring(c).built)]
    /\ UNCHANGED <<tables, last>>

\* line 53: return self._engines[connector_id]
ReturnHandle(c) ==
    /\ Acquiring(c).pc = "return"
    /\ probe' = [probe EXCEPT !.acquire[c] = IdleAcquire]
    /\ last' = CallRecord("get_engine", "", Acquiring(c).connector, 0, FALSE,
                          Outcome([engine |-> engines[Acquiring(c).connector.id]],
                                  FALSE, engines, tables, <<>>, FALSE, "none"))
    /\ UNCHANGED <<engines, tables>>

NextRace ==
    \/ \E c \in Callers : CallAcquire(c)
    \/ \E c \in Callers : CheckCache(c)
    \/ \E c \in Callers : BuildHandle(c)
    \/ \E c \in Callers : StoreHandle(c)
    \/ \E c \in Callers : ReturnHandle(c)

InitRace ==
    /\ engines = EmptyDict
    /\ tables = [n \in {"users"} |-> EmptyTable]
    /\ last = NoCall
    /\ probe = [acquire |-> [c \in Callers |-> IdleAcquire], started |-> 0,
                built |-> {}, written |-> EmptyDict]

SpecRace == InitRace /\ [][NextRace]_vars

AllReturned == \A c \in Callers : Acquiring(c).pc = "idle"

\* C22: with calls of get_engine interleaved, every call that returns gives a
\* handle that was constructed for the id it asked for, and once no call is
\* in flight the cache holds, for each id, the one handle stored last for it.
C22_LastWriteWins ==
    /\ (last.op = "get_engine" /\ ~last.raised)
       => /\ last.result.engine \in probe.built
          /\ last.result.engine.id = last.connector.id
    /\ AllReturned
       => /\ DOMAIN engines = DOMAIN probe.written
          /\ \A id \in DOMAIN engines : engines[id] = probe.written[id]

\* two handles were constructed for the same id by calls that overlapped,
\* the first one stored was overwritten and both calls have returned
C22_Witness ==
    /\ AllReturned
    /\ \E g, h \in probe.built :
          /\ g.id = "c1" /\ h.id = "c1" /\ g.n = 1 /\ h.n = 2
          /\ engines["c1"] = g
          /\ probe.started = 2

(***************************************************************************)
(* validate_query of statements of the DDL/other class, under SpecValidate *)
(***************************************************************************)
IsValidateOther(r) ==
    /\ r.op = "validate_query"
    /\ validate_branch_of(r.sql) \notin DMLClasses \cup {"SELECT", "DML"}

Connected(r) == Len(r.events) >= 1 /\ r.events[1] = Ok("connect")

C25_SentAtMostOnce ==
    (IsValidateDML(last) \/ IsExecuteDML(last))
    => /\ Count(last.events, "execute") <= 1
       /\ Count(last.events, "begin") <= 1
       /\ \A i \in Calls(last.events, "execute") :
             last.events[i].raised
             => /\ \A j \in (i + 1)..Len(last.events) :
                      last.events[j].call \in {"rollback", "close"}
                /\ ~Succeeded(last)
                /\ "valid" \in DOMAIN last.result => ~last.result.valid

\* the statement raised inside execute_query, was rolled back and not sent
\* again
C25_Witness ==
    /\ IsExecuteDML(last)
    /\ ~last.dry_run
    /\ last.events = <<Ok("connect"), Ok("begin"), Raised("execute"), Ok("rollback"),
                       Ok("close")>>
    /\ last.result.success = FALSE

(***************************************************************************)
(* generate_default_queries when the schema cannot be read: SpecBoundary   *)
(***************************************************************************)
IsFailedSuggestion(r) ==
    /\ r.op = "generate_default_queries"
    /\ ~r.raised
    /\ ~r.result.success

\* C26: whenever the schema cannot be read, generate_default_queries returns
\* the failure result of get_schema as it is, with its error and its message
\* "Failed to get schema: ...", and no queries.
C26_SchemaFailureVerbatim ==
    IsFailedSuggestion(last)
    => /\ DOMAIN last.result = {"success", "error", "message"}
       /\ last.result = get_schema_failure([str |-> last.result.error])

\* the part that holds: a failure get_schema returns is passed on unchanged,
\* and no failure carries queries
C26_ReturnedFailurePassedOn ==
    IsFailedSuggestion(last)
    => /\ DOMAIN last.result = {"success", "error", "message"}
       /\ \/ last.result = get_schema_failure([str |-> last.result.error])
          \/ /\ last.result.message =
                  "Failed to generate default queries: " \o last.result.error
             /\ last.events = <<>>

\* get_schema returned its failure for a connection that could not be opened
C26_PassedOn_Witness ==
    /\ IsFailedSuggestion(last)
    /\ last.events = <<Raised("connect")>>
    /\ last.result = get_schema_failure([str |-> last.result.error])

(***************************************************************************)
(* SpecApi: the endpoints of main.py that store connectors and queries.    *)
(* probe holds the rows of db_connectors and sql_queries and the number of *)
(* ids handed out; every id is a fresh uuid.                               *)
(***************************************************************************)
ConnectorFields ==
    {"db_type", "host", "port", "database", "username", "password", "connection_string"}

Row(d) == [k \in ConnectorFields |-> d[k]]

SqliteRow ==
    [db_type |-> "sqlite", host |-> None, port |-> None, database |-> "test.db",
     username |-> None, password |-> None, connection_string |-> None]

ApiDescriptors ==
    {SqliteRow,
     Row(PostgresConnector),
     [SqliteRow EXCEPT !.database = "/no/such/dir/x.db"],
     [SqliteRow EXCEPT !.db_type = "oracle"]}

ApiNames == {"main", "spare"}

ApiTexts == {"SELECT * FROM users -- all", "SELECT * FROM nonexistent_table"}

uuid4(n) == "n" \o int_str(n + 1)

\* connector_dict = {"id": ..., "db_type": ..., ...} of a row
connector_dict(id, row) ==
    [k \in ConnectorFields \cup {"id"} |-> IF k = "id" THEN id ELSE row[k]]

HTTPException(status_code, detail) == [status_code |-> status_code, detail |-> detail]

Responded(op, sql, connector, o) == CallRecord(op, sql, connector, 0, FALSE, o)

Refused(op, sql, connector, status_code, detail, eng, events) ==
    Responded(op, sql, connector,
              Outcome(HTTPException(status_code, detail), TRUE, eng, tables, events,
                      FALSE, "none"))

\* mutant of create_connector_trusts: the result of the test is not looked at
create_connector_trusts_any(test_result) == TRUE

\* line 836: if not test_result["success"]: raise
create_connector_trusts(test_result) == test_result.success

\* lines 835-846 once test_connection returned t
create_connector_tested(name, cd, t) ==
    /\ engines' = t.engines
    /\ UNCHANGED tables
    /\ IF create_connector_trusts(t.result)
       THEN /\ probe' = [probe EXCEPT
                            !.connectors = dict_set(@, cd.id, [name |-> name, row |-> Row(cd)]),
                            !.minted = @ + 1]
            /\ last' = Responded("create_connector", "", cd,
                                 Outcome([id |-> cd.id], FALSE, t.engines, tables,
                                         t.events, FALSE, "none"))
       ELSE /\ probe' = [probe EXCEPT !.minted = @ + 1]
            /\ last' = Refused("create_connector", "", cd, 400,
                               "Connection test failed: " \o t.result.message,
                               t.engines, t.events)

NameTaken(name) == \E id \in DOMAIN probe.connectors : probe.connectors[id].name = name

\* POST /api/connectors
create_connector(name, row, F) ==
    IF NameTaken(name)
    THEN /\ last' = Refused("create_connector", "", connector_dict("", row), 400,
                            "Connector with this name already exists", engines, <<>>)
         /\ UNCHANGED <<engines, tables, probe>>
    ELSE create_connector_tested(
             name, connector_dict(uuid4(probe.minted), row),
             test_connection(connector_dict(uuid4(probe.minted), row), F, engines, tables))

CreateConnector ==
    /\ probe.minted < MaxIds
    /\ \E name \in ApiNames, row \in ApiDescriptors, F \in FaultSets({"execute"}) :
          create_connector(name, row, F)

StoredConnector(id) == connector_dict(id, probe.connectors[id].row)

validation_error(validation) ==
    IF ~validation.valid THEN dict_get(validation, "message") ELSE None

\* lines 993-1011 once validate_query returned v
create_query_validated(sql_query, connector_id, v) ==
    /\ engines' = v.engines
    /\ UNCHANGED tables
    /\ probe' = [probe EXCEPT
                    !.queries = dict_set(@, uuid4(probe.minted),
                                         [sql_query |-> sql_query,
                                          connector_id |-> connector_id,
                                          is_valid |-> v.result.valid,
                                          validation_error |-> validation_error(v.result)]),
                    !.minted = @ + 1]
    /\ last' = Responded("create_query", sql_query, StoredConnector(connector_id),
                         Outcome([id |-> uuid4(probe.minted)], FALSE, v.engines, tables,
                                 v.events, FALSE, "none"))

\* POST /api/queries
create_query(sql_query, connector_id) ==
    IF connector_id \notin DOMAIN probe.connectors
    THEN /\ last' = Refused("create_query", sql_query, SqliteConnector, 404,
                            "Connector not found", engines, <<>>)
         /\ UNCHANGED <<engines, tables, probe>>
    ELSE create_query_validated(
             sql_query, connector_id,
             validate_query(sql_query, StoredConnector(connector_id), {}, engines, tables))

ConnectorIds == {uuid4(n) : n \in 0..(MaxIds - 1)}

CreateQuery ==
    /\ probe.minted < MaxIds
    /\ \E sql_query \in ApiTexts, connector_id \in ConnectorIds :
          create_query(sql_query, connector_id)

\* lines 1085-1097 once the statement was re-validated, or was not
update_query_commit(id, q, connector_id, eng, events) ==
    /\ engines' = eng
    /\ UNCHANGED tables
    /\ probe' = [probe EXCEPT !.queries[id] =
                    IF connector_id = None THEN q
                    ELSE [q EXCEPT !.connector_id = connector_id]]
    /\ last' = Responded("update_query", q.sql_query, SqliteConnector,
                         Outcome([id |-> id], FALSE, eng, tables, events, FALSE, "none"))

update_query_validated(id, q, sql_query, connector_id, v) ==
    update_query_commit(id,
                        [q EXCEPT !.sql_query = sql_query,
                                  !.is_valid = v.result.valid,
                                  !.validation_error = validation_error(v.result)],
                        connector_id, v.engines, v.events)

\* PUT /api/queries/{query_id}: the statement is re-validated against the
\* connector the row names before connector_id is assigned
update_query(id, sql_query, connector_id) ==
    IF id \notin DOMAIN probe.queries
    THEN /\ last' = Refused("update_query", "", SqliteConnector, 404, "Query not found",
                            engines, <<>>)
         /\ UNCHANGED <<engines, tables, probe>>
    ELSE IF sql_query = None
    THEN update_query_commit(id, probe.queries[id], connector_id, engines, <<>>)
    ELSE IF probe.queries[id].connector_id \notin DOMAIN probe.connectors
    THEN \* connector is None: connector.id raises AttributeError
         /\ last' = Refused("update_query", sql_query, SqliteConnector, 500,
                            "'NoneType' object has no attribute 'id'", engines, <<>>)
         /\ UNCHANGED <<engines, tables, probe>>
    ELSE update_query_validated(
             id, probe.queries[id], sql_query, connector_id,
             validate_query(sql_query, StoredConnector(probe.queries[id].connector_id),
                            {}, engines, tables))

UpdateQuery ==
    \E id \in ConnectorIds, sql_query \in ApiTexts \cup {None},
       connector_id \in ConnectorIds \cup {None} :
        update_query(id, sql_query, connector_id)

NextApi ==
    \/ CreateConnector
    \/ CreateQuery
    \/ UpdateQuery

InitApi ==
    /\ engines = EmptyDict
    /\ tables = [n \in {"users"} |-> [k \in Keys |-> "0"]]
    /\ last = NoCall
    /\ probe = [connectors |-> EmptyDict, queries |-> EmptyDict, minted |-> 0]

SpecApi == InitApi /\ [][NextApi]_vars

ProbePassed(r) == r.events = <<Ok("connect"), Ok("execute"), Ok("close")>>

\* C27: a connector row is stored only by a create_connector call whose
\* test_connection on the descriptor succeeded, and it holds that descriptor;
\* a call whose test fails is rejected with status 400 and stores nothing.
C27_StoredOnlyAfterTest ==
    [][/\ probe'.connectors # probe.connectors
          => /\ last'.op = "create_connector"
             /\ ~last'.raised
             /\ ProbePassed(last')
             /\ DOMAIN probe'.connectors = DOMAIN probe.connectors \cup {last'.connector.id}
             /\ last'.connector.id \notin DOMAIN probe.connectors
             /\ connector_dict(last'.connector.id,
                               probe'.connectors[last'.connector.id].row)
                = last'.connector
             /\ \A id \in DOMAIN probe.connectors :
                   probe'.connectors[id] = probe.connectors[id]
       /\ (last'.op = "create_connector" /\ ~ProbePassed(last'))
          => /\ probe'.connectors = probe.connectors
             /\ last'.raised
             /\ last'.result.status_code = 400]_vars

\* a descriptor whose test failed was rejected after another had been stored
C27_Witness ==
    /\ last.op = "create_connector"
    /\ last.raised
    /\ last.events = <<Raised("connect")>>
    /\ startswith(last.result.detail, "Connection test failed: Connection failed: ")
    /\ Cardinality(DOMAIN probe.connectors) = 1
    /\ probe.minted = 2

Verdict(q) ==
    validate_query(q.sql_query, StoredConnector(q.connector_id), {}, engines, tables).result

VerdictCurrent(q) ==
    /\ q.connector_id \in DOMAIN probe.connectors
    /\ q.is_valid = Verdict(q).valid
    /\ q.validation_error = validation_error(Verdict(q))

\* C30: every stored query's is_valid and validation_error are the verdict of
\* validating its current sql_query against the connector its current
\* connector_id names.
C30_VerdictCurrent ==
    \A id \in DOMAIN probe.queries : VerdictCurrent(probe.queries[id])

\* a query valid on the sqlite connector was moved to the postgresql
\* connector, which rejects it, and is still marked valid
C30_Stale_Witness ==
    /\ last.op = "update_query"
    /\ ~last.raised
    /\ \E id \in DOMAIN probe.queries :
          /\ probe.queries[id].connector_id \in DOMAIN probe.connectors
          /\ probe.queries[id].is_valid
          /\ ~Verdict(probe.queries[id]).valid

\* the part that holds: what create_query stores is the verdict
C30_CreateStoresVerdict ==
    (last.op = "create_query" /\ ~last.raised)
    => VerdictCurrent(probe.queries[last.result.id])

====
